---- MODULE Spec2Model ----
(***************************************************************************)
(* A model of the gp3attention eye-tracker client (src/src/gp3Interface.ts, *)
(* first class of the file): the command/acknowledgement protocol of send,  *)
(* the incoming-stream handling of processIncoming / handleXML, and the     *)
(* timed device calibration; of the tracking session that drives it         *)
(* (src/src/launchTrackingSession.ts); and of the tag manager and the       *)
(* recording manager with their commands (src/unnamed/part_002).            *)
(*                                                                          *)
(* Text is modelled as a sequence of glyphs (short strings), so that the    *)
(* substring test of String.includes, split("\n") and trim() are computed   *)
(* and not assumed.  Time is a discrete clock `now`; a timer fires at the   *)
(* instant it is due (the clock does not advance past a due timer).         *)
(* JavaScript runs one callback to completion and drains the microtask      *)
(* queue before the next event is delivered: the continuations of the       *)
(* `await`s in processIncoming / handleXML are the microtasks of the model. *)
(***************************************************************************)
EXTENDS Integers, Sequences, FiniteSets, TLC

VARIABLES
  now,             \* the clock (Date.now()), in model time units
  sock,            \* the net.Socket: "connecting", "open", "closed"
  isConnected,     \* gp3Interface.isConnected
  unacknowledged,  \* gp3Interface.unacknowledged: raw messages awaiting an ACK
  waits,           \* the promises of send(..., wait_for_acknowledgement = true)
  written,         \* what client.write received, in order, with the send call's number
  calls,           \* number of send calls made so far
  lastSend,        \* what the most recent send call saw and did
  wire,            \* text the device has sent that no data event has delivered yet
  delivered,       \* all text delivered by data events so far
  procs,           \* running processIncoming invocations: their lines not yet handled
  handled,         \* the effects of handleXML, in the order they happened
  ackEffect,       \* the pending list before and after the last ACK handled
  frame,           \* the device's frame counter: [next, step], next = -1 when not counting
  timers,          \* the pending timers of begin and calibrate: [kind, due]
  beginCall,       \* the call of begin(): where it is, and its polls so far
  cal,             \* the run of calibrate(): where it is, and when it started
  ends,            \* the number of client.end() calls, and of close() calls
  session,         \* the tracking session: where it is, what it showed and did
  extension,       \* the extension's life: "active", "deactivated", "disposed"
  tagManager,      \* the global tagManager and the fields of its TagManager
  tagFile,         \* the text of the tag log (the CSV file)
  tagTimers,       \* the pending timers of addTagWithDelay: [id, tag, due]
  tagLog,          \* the calls of appendEntry so far, in order
  finalizeRuns,    \* the runs of TagManager.finalize so far, in order
  recordingManager,\* the global recordingManager and its ffmpegProcess
  ffmpeg,          \* the ffmpeg processes spawned so far, and their states
  stopTimers,      \* the pending timers of stopRecording: [due, stopped]
  signals          \* the SIGTERMs sent so far: [pid, stopped]

vars == <<now, sock, isConnected, unacknowledged, waits, written, calls,
          lastSend, wire, delivered, procs, handled, ackEffect, frame,
          timers, beginCall, cal, ends, session, extension, tagManager,
          tagFile, tagTimers, tagLog, finalizeRuns, recordingManager, ffmpeg,
          stopTimers, signals>>

\* the state of the acknowledgement protocol, of the stream, of the calibration
ackVars == <<unacknowledged, waits, lastSend>>
streamVars == <<wire, delivered, procs, handled, ackEffect, frame>>
calVars == <<timers, beginCall, cal, ends>>

\* the state of the tracker client and of the tracking session, of the tag
\* manager, of the recording manager
trackerVars == <<sock, isConnected, written, calls, ackVars, streamVars, calVars,
                 session>>
tagVars == <<tagManager, tagFile, tagTimers, tagLog, finalizeRuns>>
recVars == <<recordingManager, ffmpeg, stopTimers, signals>>
extVars == <<extension, tagVars, recVars>>

----------------------------------------------------------------------------
(* Bounds of the model. *)

MaxTime == 5      \* the clock stops here
MaxCalls == 2     \* send calls in one behaviour
MaxAcks == 1      \* lines the device sends in the acknowledgement protocol
MaxRecords == 3   \* lines the device sends in the stream
MaxPolls == 2     \* polls of begin() for the connection
MaxCloses == 2    \* close() calls in one behaviour
MaxFrames == 182  \* counted telemetry records the device sends
MaxBurst == 2     \* counted records the device sends ahead of their delivery
MaxParams == 2    \* parameters of one command
MaxBare == 2      \* telemetry records the device sends before it counts frames

----------------------------------------------------------------------------
(* Text. *)

\* the command ids the model sends
CALIBRATE_RESET == <<"CALIBRATE_RESET">>
CALIBRATE_SHOW == <<"CALIBRATE_SHOW">>
CALIBRATE_START == <<"CALIBRATE_START">>
ENABLE_SEND_COUNTER == <<"ENABLE_SEND_COUNTER">>
ENABLE_SEND_DATA == <<"ENABLE_SEND_DATA">>
ENABLE_SEND_POG_BEST == <<"ENABLE_SEND_POG_BEST">>
ENABLE_SEND_POG_FIX == <<"ENABLE_SEND_POG_FIX">>

CALIBRATE_DELAY == <<"CALIBRATE_DELAY">>
CALIBRATE_TIMEOUT == <<"CALIBRATE_TIMEOUT">>
ENABLE_SEND_CURSOR == <<"ENABLE_SEND_CURSOR">>
TRACKER_DISPLAY == <<"TRACKER_DISPLAY">>

\* the ids the switch of handleXML has a case for
RecognizedIds ==
  {CALIBRATE_DELAY, CALIBRATE_RESET, CALIBRATE_SHOW, CALIBRATE_START,
   CALIBRATE_TIMEOUT, ENABLE_SEND_COUNTER, ENABLE_SEND_CURSOR, ENABLE_SEND_DATA,
   ENABLE_SEND_POG_BEST, ENABLE_SEND_POG_FIX, TRACKER_DISPLAY}

SET == TRUE
GET == FALSE

\* String.prototype.includes: t occurs in s as a contiguous run
Includes(s, t) ==
  \E i \in 1..(Len(s) + 1) :
    /\ i + Len(t) - 1 <= Len(s)
    /\ \A j \in 1..Len(t) : s[i + j - 1] = t[j]

RECURSIVE ParamTextReversed(_)
\* a variant of ParamText: the parameters are written last to first
ParamTextReversed(parameters) ==
  IF parameters = <<>> THEN <<>>
  ELSE ParamTextReversed(Tail(parameters))
         \o <<" ", Head(parameters)[1], "=", "\"", Head(parameters)[2], "\"">>

RECURSIVE ParamText(_)
\* the loop of send: ` ${key}="${value}"` for each parameter, in the given order
ParamText(parameters) ==
  IF parameters = <<>> THEN <<>>
  ELSE <<" ", Head(parameters)[1], "=", "\"", Head(parameters)[2], "\"">>
         \o ParamText(Tail(parameters))

\* the message send builds
Message(set, id, parameters) ==
  <<"<", IF set THEN "SET" ELSE "GET", " ", "ID", "=", "\"">> \o id \o <<"\"">>
    \o ParamText(parameters) \o <<" ", "/>", "\r", "\n">>

\* the command id a raw message was built from (the text of its ID attribute)
CmdId(msg) == <<msg[7]>>

\* the acknowledgement ids the device may send: a command id, the text of a
\* parameter key, and an id that occurs in no message
AckIds == {CALIBRATE_SHOW, <<"STATE">>, <<"BOGUS">>}

\* the records of the device's stream the model draws from
DeviceRecords ==
  [tag : {"ACK"}, val : AckIds] \cup [tag : {"REC"}, val : {<<"0">>, <<"1">>, <<>>}]

\* the acknowledgements of the timed protocol
AckRecords == [tag : {"ACK"}, val : {CALIBRATE_SHOW, <<"STATE">>}]

\* what `rec.CNT ?? null` is for a telemetry record without a CNT attribute
Null == <<"null">>

\* a telemetry record that has a gaze attribute but no frame counter
BareRecord == [tag |-> "REC", val |-> Null]
BareRecordText == <<"<", "REC", " ", "FPOGX", "=", "\"", "0.5", "\"", " ", "/>">>

\* the line the device sends for a record; a REC with no attribute is the
\* empty-record marker <REC />
RecordText(r) ==
  IF r.tag = "ACK"
  THEN <<"<", "ACK", " ", "ID", "=", "\"">> \o r.val \o <<"\"", " ", "/>">>
  ELSE IF r.val = <<>> THEN <<"<", "REC", " ", "/>">>
  ELSE IF r = BareRecord THEN BareRecordText
  ELSE <<"<", "REC", " ", "CNT", "=", "\"">> \o r.val \o <<"\"", " ", "/>">>

EmptyRecordMarker == <<"<", "REC", " ", "/>">>

Whitespace == {" ", "\r", "\n", "\t"}

RECURSIVE TrimStart(_)
TrimStart(s) ==
  IF s # <<>> /\ Head(s) \in Whitespace THEN TrimStart(Tail(s)) ELSE s

RECURSIVE TrimEnd(_)
TrimEnd(s) ==
  IF s # <<>> /\ s[Len(s)] \in Whitespace THEN TrimEnd(SubSeq(s, 1, Len(s) - 1)) ELSE s

\* String.prototype.trim
Trim(s) == TrimEnd(TrimStart(s))

RECURSIVE SplitFrom(_, _)
SplitFrom(s, cur) ==
  IF s = <<>> THEN <<cur>>
  ELSE IF Head(s) = "\n" THEN <<cur>> \o SplitFrom(Tail(s), <<>>)
  ELSE SplitFrom(Tail(s), Append(cur, Head(s)))

\* data.split("\n"): k newlines give k + 1 pieces, the last one what follows
\* the last newline (empty when the data ends with a newline)
Split(data) == SplitFrom(data, <<>>)

Malformed == [tag |-> "error", val |-> <<>>]

DigitGlyphs == {ToString(d) : d \in 0..9}

\* the text of a CNT attribute's value when the line is <REC CNT="digits" />
CntText(line) == SubSeq(line, 7, Len(line) - 3)

\* the line is a telemetry record that carries a frame counter
IsCountedRec(line) ==
  /\ Len(line) >= 10
  /\ SubSeq(line, 1, 6) = <<"<", "REC", " ", "CNT", "=", "\"">>
  /\ SubSeq(line, Len(line) - 2, Len(line)) = <<"\"", " ", "/>">>
  /\ \A i \in 1..Len(CntText(line)) : CntText(line)[i] \in DigitGlyphs

\* parseStringPromise on one trimmed line: the record whose text the line is;
\* anything else (a fragment of a line, an empty line) ends in the catch of handleXML
ParseXML(line) ==
  IF \E r \in DeviceRecords : RecordText(r) = line
  THEN CHOOSE r \in DeviceRecords : RecordText(r) = line
  ELSE IF IsCountedRec(line) THEN [tag |-> "REC", val |-> CntText(line)]
  ELSE IF line = BareRecordText THEN BareRecord
  ELSE Malformed

----------------------------------------------------------------------------
(* The inputs of send the model draws from. *)

\* [set, id, parameters]
SendChoices ==
  { <<SET, CALIBRATE_SHOW, << <<"STATE", "1">> >> >>,
    <<GET, CALIBRATE_SHOW, <<>> >> }

\* the parameter lists of up to MaxParams [key, value] pairs; keys may repeat
\* and come in any order
ParamPairs == {<<"X", "1">>, <<"STATE", "1">>}
ParamLists == UNION {[1..n -> ParamPairs] : n \in 0..MaxParams}

\* [set, id, parameters] of the sends whose message text is examined
MessageChoices == {SET, GET} \X {CALIBRATE_SHOW} \X ParamLists

\* max_await, in model time units
AwaitChoices == {5}

NoSend ==
  [call |-> 0, connected |-> FALSE, wrote |-> 0, pushed |-> 0, result |-> <<>>]

NoAckEffect == [id |-> <<>>, before |-> <<>>, after |-> <<>>, n |-> 0]

\* before the command gp3attention.launchTrackingSession runs: the user's
\* document is shown, no tracker exists and no content provider is registered
NoSession ==
  [pc |-> "idle", log |-> <<>>, doc |-> "user", tracker |-> FALSE,
   provider |-> "none"]

\* before gp3attention.initializeTagManager runs: the global is null
NoTagManager ==
  [exists |-> FALSE, visibleTags |-> <<>>, activeDelayedTags |-> <<>>]

\* before gp3attention.startRecording runs: the global is null; pid 0 stands
\* for `ffmpegProcess === null`
NoRecordingManager == [exists |-> FALSE, ffmpegProcess |-> 0]

----------------------------------------------------------------------------
(* The event loop. *)

\* a variant of Idle: the awaited parse completes in a later task, so that
\* events are delivered between the lines of one processIncoming
IdleAlways == TRUE

\* no continuation of processIncoming / handleXML is waiting to run: the
\* awaited parse has completed synchronously, so the continuations are
\* microtasks and run before the next event (data, timer, call) is delivered
Idle == procs = <<>>

\* the number of newlines in a text
Newlines(s) == Len(SelectSeq(s, LAMBDA g : g = "\n"))

\* msg is an element of the pending list (Array.prototype.includes)
Pending(list, msg) == \E i \in 1..Len(list) : list[i] = msg

\* the delay of the poll timer: (max_await * 1000) / 5
PollDelay(max_await) == max_await \div 5

----------------------------------------------------------------------------
(* The socket's events. *)

Init ==
  /\ now = 0
  /\ sock = "connecting"
  /\ isConnected = FALSE
  /\ unacknowledged = <<>>
  /\ waits = <<>>
  /\ written = <<>>
  /\ calls = 0
  /\ lastSend = NoSend
  /\ wire = <<>>
  /\ delivered = <<>>
  /\ procs = <<>>
  /\ handled = <<>>
  /\ ackEffect = NoAckEffect
  /\ frame = [next |-> -1, step |-> 1]
  /\ timers = {}
  /\ beginCall = [pc |-> "idle", polls |-> 0]
  /\ cal = [pc |-> "idle", startAt |-> -1, first |-> 0, closed |-> FALSE]
  /\ ends = [end |-> 0, close |-> 0]
  /\ session = NoSession
  /\ extension = "active"
  /\ tagManager = NoTagManager
  /\ tagFile = <<>>
  /\ tagTimers = {}
  /\ tagLog = <<>>
  /\ finalizeRuns = <<>>
  /\ recordingManager = NoRecordingManager
  /\ ffmpeg = <<>>
  /\ stopTimers = {}
  /\ signals = <<>>

\* the callback of client.connect
ConnectCallback ==
  /\ Idle
  /\ sock = "connecting"
  /\ sock' = "open"
  /\ isConnected' = TRUE
  /\ UNCHANGED <<now, written, calls, ackVars, streamVars, calVars, session>>
  /\ UNCHANGED extVars

\* the listener of the socket's "close" event; what the device had sent and
\* no data event delivered is lost with the socket
CloseEvent ==
  /\ Idle
  /\ sock \in {"connecting", "open", "ended", "errored"}
  /\ sock' = "closed"
  /\ isConnected' = FALSE
  /\ wire' = <<>>
  /\ timers' = timers
  /\ beginCall' = beginCall
  /\ ends' = ends
  /\ cal' = IF cal.pc \in {"waitStart", "waitHide"}
            THEN [cal EXCEPT !.closed = TRUE] ELSE cal
  /\ UNCHANGED <<now, written, calls, ackVars, delivered, procs, handled, ackEffect,
                 frame, session>>
  /\ UNCHANGED extVars

----------------------------------------------------------------------------
(* send. *)

\* the default of max_await
DefaultMaxAwait == 9

\* [wait_for_acknowledgement, max_await]
SendOptions ==
  {[wait |-> FALSE, max_await |-> DefaultMaxAwait]}
    \cup [wait : {TRUE}, max_await : AwaitChoices]

\* a variant of CanSend: send without the connection test
CanSendAlways == TRUE

\* the guard of send: "Don't even try to send if we are not connected"
CanSend == isConnected

\* a variant of SocketWrite: the message is queued in front of earlier ones
SocketWriteFront(log, call, msg) == <<[call |-> call, msg |-> msg, at |-> now]>> \o log

\* client.write(message), tagged with the number of the send call that wrote
\* it and the time of the write
SocketWrite(log, call, msg) == Append(log, [call |-> call, msg |-> msg, at |-> now])

\* a variant of TimeoutRemove: the timed-out message stays in the list
TimeoutKeep(list, message) == list

\* the timeout branch of checkAcknowledgement: filter((msg) => msg !== message)
TimeoutRemove(list, message) == SelectSeq(list, LAMBDA msg : msg # message)

\* a variant of CheckAcknowledgement: the elapsed time is not looked at
CheckWithoutTimeout(list, w) ==
  IF Pending(list, w.msg)
  THEN [list |-> list, wait |-> [w EXCEPT !.due = now + PollDelay(w.max_await)]]
  ELSE [list |-> list,
        wait |-> [w EXCEPT !.status = "Acknowledged", !.at = now, !.due = -1]]

\* one run of checkAcknowledgement for wait w on the pending list: the list
\* and the wait after it
CheckAcknowledgement(list, w) ==
  LET elapsed == now - w.start
  IN  IF Pending(list, w.msg)
      THEN IF elapsed >= w.max_await
           THEN [list |-> TimeoutRemove(list, w.msg),
                 wait |-> [w EXCEPT !.status = "TimedOut", !.at = now, !.due = -1]]
           ELSE [list |-> list,
                 wait |-> [w EXCEPT !.due = now + PollDelay(w.max_await)]]
      ELSE [list |-> list,
            wait |-> [w EXCEPT !.status = "Acknowledged", !.at = now, !.due = -1]]

\* the wait a send with wait_for_acknowledgement creates (startTime = Date.now())
NewWait(call, message, max_await) ==
  [call |-> call, msg |-> message, start |-> now, max_await |-> max_await,
   due |-> now, status |-> "pending", at |-> -1, ackAt |-> -1]

\* send(set, id, parameters, wait_for_acknowledgement, max_await); lastSend
\* records what the call saw (isConnected) and what it changed
Send(c, o) ==
  /\ Idle
  /\ calls < MaxCalls
  /\ calls' = calls + 1
  /\ IF ~CanSend
     THEN UNCHANGED <<written, unacknowledged, waits>>
     ELSE LET message == Message(c[1], c[2], c[3])
          IN  /\ written' = SocketWrite(written, calls + 1, message)
              /\ IF ~o.wait
                 THEN UNCHANGED <<unacknowledged, waits>>
                 ELSE LET r == CheckAcknowledgement(
                                 Append(unacknowledged, message),
                                 NewWait(calls + 1, message, o.max_await))
                      IN  /\ unacknowledged' = r.list
                          /\ waits' = Append(waits, r.wait)
  /\ lastSend' = [call |-> calls + 1,
                  connected |-> isConnected,
                  wrote |-> Len(written') - Len(written),
                  pushed |-> Len(unacknowledged') - Len(unacknowledged),
                  result |-> IF ~CanSend THEN <<FALSE, FALSE>>
                             ELSE IF ~o.wait THEN <<TRUE, FALSE>>
                             ELSE <<>>]   \* a promise, resolved by a poll
  /\ UNCHANGED <<now, sock, isConnected, streamVars, calVars, session>>
  /\ UNCHANGED extVars

\* the timer of setTimeout(checkAcknowledgement, ...) of wait w fires
Poll(w) ==
  /\ Idle
  /\ waits[w].status = "pending"
  /\ waits[w].due = now
  /\ LET r == CheckAcknowledgement(unacknowledged, waits[w])
     IN  /\ unacknowledged' = r.list
         /\ waits' = [waits EXCEPT ![w] = r.wait]
  /\ UNCHANGED <<now, sock, isConnected, written, calls, lastSend, streamVars,
                 calVars, session>>
  /\ UNCHANGED extVars

\* time passes; a timer that is due fires before the clock moves on.  The
\* clock is read only by the polls, so it is advanced only while one is pending.
Tick ==
  /\ Idle
  /\ now < MaxTime
  /\ \E w \in 1..Len(waits) : waits[w].status = "pending"
  /\ \A w \in 1..Len(waits) : waits[w].status = "pending" => waits[w].due > now
  /\ now' = now + 1
  /\ UNCHANGED <<sock, isConnected, written, calls, ackVars, streamVars, calVars,
                 session>>
  /\ UNCHANGED extVars

----------------------------------------------------------------------------
(* The incoming stream. *)

\* the device sends one more record, as a line ended by CR LF
DeviceEmit(r, max) ==
  /\ Idle
  /\ sock = "open"
  /\ Newlines(delivered) + Newlines(wire) < max
  /\ wire' = wire \o RecordText(r) \o <<"\r", "\n">>
  /\ UNCHANGED <<now, sock, isConnected, written, calls, ackVars, delivered,
                 procs, handled, ackEffect, frame, calVars, session>>
  /\ UNCHANGED extVars

RECURSIVE Digits(_)
\* the decimal text of a frame counter
Digits(n) ==
  IF n < 10 THEN <<ToString(n)>> ELSE Digits(n \div 10) \o <<ToString(n % 10)>>

\* the frame counters the device starts streaming at, and the counter's steps
FirstFrames == {0, 1, 90}
FrameSteps == {1, 2}

\* the device starts to stream counted telemetry records
StartFrames(c, step) ==
  /\ Idle
  /\ sock = "open"
  /\ frame.next = -1
  /\ frame' = [next |-> c, step |-> step]
  /\ UNCHANGED <<now, sock, isConnected, written, calls, ackVars, wire, delivered,
                 procs, handled, ackEffect, calVars, session>>
  /\ UNCHANGED extVars

\* the device sends a telemetry record without a frame counter: it does so
\* until the counter is switched on
DeviceBareFrame ==
  /\ Idle
  /\ sock = "open"
  /\ frame.next = -1
  /\ Newlines(delivered) + Newlines(wire) < MaxBare
  /\ wire' = wire \o RecordText(BareRecord) \o <<"\r", "\n">>
  /\ UNCHANGED <<now, sock, isConnected, written, calls, ackVars, delivered,
                 procs, handled, ackEffect, frame, calVars, session>>
  /\ UNCHANGED extVars

\* the device sends the record of its next frame, as a line ended by CR LF
DeviceFrame ==
  /\ Idle
  /\ sock = "open"
  /\ frame.next # -1
  /\ Newlines(delivered) + Newlines(wire) < MaxFrames
  /\ Newlines(wire) < MaxBurst
  /\ wire' = wire \o RecordText([tag |-> "REC", val |-> Digits(frame.next)])
                  \o <<"\r", "\n">>
  /\ frame' = [frame EXCEPT !.next = @ + frame.step]
  /\ UNCHANGED <<now, sock, isConnected, written, calls, ackVars, delivered,
                 procs, handled, ackEffect, calVars, session>>
  /\ UNCHANGED extVars

RECURSIVE LinesFromAll(_, _, _)
\* a variant of LinesFrom: the empty-record marker is handled like any line
LinesFromAll(lines, i, base) ==
  IF i > Len(lines) - 1 THEN <<>>
  ELSE <<[n |-> base + i, text |-> Trim(lines[i])]>> \o LinesFromAll(lines, i + 1, base)

RECURSIVE LinesFrom(_, _, _)
\* the loop of processIncoming over lines[i .. length - 2]: each line trimmed,
\* the empty-record marker skipped; n is the line's number in the whole stream
LinesFrom(lines, i, base) ==
  IF i > Len(lines) - 1 THEN <<>>
  ELSE LET line == Trim(lines[i])
       IN  (IF line # EmptyRecordMarker
            THEN <<[n |-> base + i, text |-> line]>> ELSE <<>>)
             \o LinesFrom(lines, i + 1, base)

\* the lines one call processIncoming(data) passes to handleXML, in order
ToHandle(data, base) == LinesFrom(Split(data), 1, base)

\* the "data" listener: processIncoming(data.toString()) on the next n glyphs
DataEvent(n) ==
  /\ Idle
  /\ sock = "open"
  /\ n \in 1..Len(wire)
  /\ LET data == SubSeq(wire, 1, n)
         todo == ToHandle(data, Newlines(delivered))
     IN  /\ wire' = SubSeq(wire, n + 1, Len(wire))
         /\ delivered' = delivered \o data
         /\ procs' = IF todo = <<>> THEN procs ELSE Append(procs, todo)
  /\ UNCHANGED <<now, sock, isConnected, written, calls, ackVars, handled,
                 ackEffect, frame, calVars, session>>
  /\ UNCHANGED extVars

RECURSIVE AckRemoveFirstOnly(_, _)
\* a variant of AckRemove: only the first entry that includes the id is removed
AckRemoveFirstOnly(list, id) ==
  IF list = <<>> THEN <<>>
  ELSE IF Includes(Head(list), id) THEN Tail(list)
  ELSE <<Head(list)>> \o AckRemoveFirstOnly(Tail(list), id)

\* the ACK branch of handleXML: filter((msg) => !msg.includes(id))
AckRemove(list, id) == SelectSeq(list, LAMBDA msg : ~Includes(msg, id))

\* `if (cnt % 180 !== 0) return`: every 180th frame is processed
FramePeriod == 180

DigitValue(g) == CHOOSE d \in 0..9 : ToString(d) = g

RECURSIVE ToNumber(_)
\* the number a CNT attribute's decimal text converts to in cnt % 180
ToNumber(val) ==
  IF val = <<>> \/ val = Null THEN 0
  ELSE 10 * ToNumber(SubSeq(val, 1, Len(val) - 1)) + DigitValue(val[Len(val)])

\* a variant of Forwarded: the frames before the 180th ones are processed
ForwardedBefore(rec) == ToNumber(rec.val) % FramePeriod = FramePeriod - 1

\* the REC branch of handleXML: forwarded to the sink unless cnt % 180 !== 0
Forwarded(rec) == ToNumber(rec.val) % FramePeriod = 0

\* a variant of Remaining: a line that fails to parse ends its processIncoming
RemainingUnlessError(rec, rest) == IF rec.tag = "error" THEN <<>> ELSE rest

\* the lines processIncoming still has to handle after handleXML returned for
\* one line: handleXML catches a failed parse itself, so the loop goes on
Remaining(rec, rest) == rest

\* a continuation of processIncoming runs: handleXML on the next line of the
\* invocation at the head of the microtask queue, after the awaited parse; the
\* invocation's next continuation is queued behind the others
HandleLine ==
  /\ procs # <<>>
  /\ LET line == Head(Head(procs))
         rec  == ParseXML(line.text)
         rest == Remaining(rec, Tail(Head(procs)))
     IN  /\ procs' = IF rest = <<>> THEN Tail(procs) ELSE Append(Tail(procs), rest)
         /\ IF rec.tag = "ACK"
            THEN /\ unacknowledged' = AckRemove(unacknowledged, rec.val)
                 /\ ackEffect' = [id |-> rec.val, before |-> unacknowledged,
                                  after |-> unacknowledged', n |-> line.n]
                 /\ waits' = [w \in 1..Len(waits) |->
                                IF /\ waits[w].status = "pending"
                                   /\ waits[w].ackAt = -1
                                   /\ CmdId(waits[w].msg) = rec.val
                                THEN [waits[w] EXCEPT !.ackAt = now]
                                ELSE waits[w]]
                 /\ handled' = Append(handled, [n |-> line.n, rec |-> rec, fwd |-> FALSE])
            ELSE /\ handled' = Append(handled,
                                 [n |-> line.n, rec |-> rec,
                                  fwd |-> (rec.tag = "REC" /\ Forwarded(rec))])
                 /\ UNCHANGED <<unacknowledged, ackEffect, waits>>
  /\ UNCHANGED <<now, sock, isConnected, written, calls, lastSend, wire, delivered,
                 frame, calVars, session>>
  /\ UNCHANGED extVars

----------------------------------------------------------------------------
(* begin, calibrate and close. *)

\* the delay of begin's poll for the connection, of the first and of the
\* second timer of calibrate, in milliseconds
BeginPollDelay == 100
CalStartDelay == 1000
CalHideDelay == 10000

State(v) == << <<"STATE", v>> >>

\* a variant of EnableSends: the counter is enabled before the data
EnableSendsCounterFirst ==
  << <<SET, ENABLE_SEND_COUNTER, State("1")>>,
     <<SET, ENABLE_SEND_DATA, State("1")>>,
     <<SET, ENABLE_SEND_POG_BEST, State("1")>>,
     <<SET, ENABLE_SEND_POG_FIX, State("1")>> >>

\* the four sends of begin
EnableSends ==
  << <<SET, ENABLE_SEND_DATA, State("1")>>,
     <<SET, ENABLE_SEND_COUNTER, State("1")>>,
     <<SET, ENABLE_SEND_POG_BEST, State("1")>>,
     <<SET, ENABLE_SEND_POG_FIX, State("1")>> >>

\* the two sends calibrate makes at once
CalibrateSends ==
  << <<SET, CALIBRATE_RESET, <<>> >>, <<SET, CALIBRATE_SHOW, State("1")>> >>

\* a variant of CalStartSend: the first timer shows the overlay again
CalStartSendShow == <<SET, CALIBRATE_SHOW, State("1")>>

\* the send of calibrate's first timer, and of its second
CalStartSend == <<SET, CALIBRATE_START, State("1")>>
CalHideSend == <<SET, CALIBRATE_SHOW, State("0")>>

RECURSIVE SendAll(_, _, _)
\* the socket's log after send(c) without acknowledgement for each c of cmds,
\* the calls numbered from call + 1: each writes only if connected
SendAll(log, call, cmds) ==
  IF cmds = <<>> THEN log
  ELSE SendAll(IF CanSend
               THEN SocketWrite(log, call + 1,
                                Message(Head(cmds)[1], Head(cmds)[2], Head(cmds)[3]))
               ELSE log,
               call + 1, Tail(cmds))

\* begin once the connection is established: the four enabling sends, then
\* calibrate(), which sends twice and arms its first timer
BeginBody ==
  /\ written' = SendAll(written, calls, EnableSends \o CalibrateSends)
  /\ calls' = calls + Len(EnableSends) + Len(CalibrateSends)
  /\ cal' = [cal EXCEPT !.pc = "waitStart", !.startAt = now,
                        !.first = Len(SendAll(written, calls, EnableSends)) + 1]
  /\ timers' = {[kind |-> "calStart", due |-> now + CalStartDelay]}

\* begin(): `while (!this.isConnected) await setTimeout(100)`, then the body
Begin ==
  /\ Idle
  /\ beginCall.pc = "idle"
  /\ IF isConnected
     THEN /\ BeginBody
          /\ beginCall' = [beginCall EXCEPT !.pc = "calibrating"]
     ELSE /\ timers' = {[kind |-> "beginPoll", due |-> now + BeginPollDelay]}
          /\ beginCall' = [beginCall EXCEPT !.pc = "polling"]
          /\ UNCHANGED <<written, calls, cal>>
  /\ UNCHANGED <<now, sock, isConnected, ackVars, streamVars, ends, session>>
  /\ UNCHANGED extVars

\* the timer of begin's loop fires: the loop tests isConnected again
BeginPoll ==
  /\ Idle
  /\ beginCall.pc = "polling"
  /\ [kind |-> "beginPoll", due |-> now] \in timers
  /\ IF isConnected
     THEN /\ BeginBody
          /\ beginCall' = [pc |-> "calibrating", polls |-> beginCall.polls + 1]
     ELSE /\ beginCall.polls < MaxPolls
          /\ timers' = {[kind |-> "beginPoll", due |-> now + BeginPollDelay]}
          /\ beginCall' = [beginCall EXCEPT !.polls = @ + 1]
          /\ UNCHANGED <<written, calls, cal>>
  /\ UNCHANGED <<now, sock, isConnected, ackVars, streamVars, ends, session>>
  /\ UNCHANGED extVars

\* the first timer of calibrate fires: send START, arm the second timer
CalStartTimer ==
  /\ Idle
  /\ cal.pc = "waitStart"
  /\ [kind |-> "calStart", due |-> now] \in timers
  /\ written' = SendAll(written, calls, <<CalStartSend>>)
  /\ calls' = calls + 1
  /\ timers' = {[kind |-> "calHide", due |-> now + CalHideDelay]}
  /\ cal' = [cal EXCEPT !.pc = "waitHide"]
  /\ UNCHANGED <<now, sock, isConnected, ackVars, streamVars, beginCall, ends,
                 session>>
  /\ UNCHANGED extVars

\* the second timer of calibrate fires: send SHOW STATE=0, resolve(true);
\* begin returned calibrate's promise, so begin resolves with it
CalHideTimer ==
  /\ Idle
  /\ cal.pc = "waitHide"
  /\ [kind |-> "calHide", due |-> now] \in timers
  /\ written' = SendAll(written, calls, <<CalHideSend>>)
  /\ calls' = calls + 1
  /\ timers' = {}
  /\ cal' = [cal EXCEPT !.pc = "complete"]
  /\ beginCall' = [beginCall EXCEPT !.pc = "resolved"]
  /\ UNCHANGED <<now, sock, isConnected, ackVars, streamVars, ends, session>>
  /\ UNCHANGED extVars

\* time passes up to the next timer that is due
Advance ==
  /\ Idle
  /\ timers # {}
  /\ \A t \in timers : t.due > now
  /\ now' = CHOOSE d \in {t.due : t \in timers} : \A t \in timers : d <= t.due
  /\ UNCHANGED <<sock, isConnected, written, calls, ackVars, streamVars, calVars,
                 session>>
  /\ UNCHANGED extVars

\* close(): client.end() if isConnected
Close ==
  /\ Idle
  /\ ends.close < MaxCloses
  /\ IF isConnected
     THEN /\ ends' = [end |-> ends.end + 1, close |-> ends.close + 1]
          /\ sock' = IF sock = "open" THEN "ended" ELSE sock
     ELSE /\ ends' = [ends EXCEPT !.close = @ + 1]
          /\ sock' = sock
  /\ UNCHANGED <<now, isConnected, written, calls, ackVars, streamVars, timers,
                 beginCall, cal, session>>
  /\ UNCHANGED extVars

\* the listener of the socket's "error" event only logs; the socket closes next
ErrorEvent ==
  /\ Idle
  /\ sock \in {"connecting", "open", "ended"}
  /\ sock' = "errored"
  /\ UNCHANGED <<now, isConnected, written, calls, ackVars, streamVars, calVars,
                 session>>
  /\ UNCHANGED extVars

----------------------------------------------------------------------------
(* The tracking session (src/src/launchTrackingSession.ts). *)

\* the waits between the steps of the session and the stare of a window
\* calibration step, in milliseconds
SessionWaitDelay == 2000
StareDelay == 7000

\* the notices of the session
NoActiveEditor == "No active editor!"
CalibrationCancelled == "Calibration cancelled."
CalibrationDone == "Calibration done!"

\* the button that confirms each prompt, and what the user may answer: the
\* button, Cancel, or dismissing the prompt
ConfirmButton ==
  [promptOpen |-> "Open", promptGp3 |-> "Start Calibration",
   promptStep1 |-> "Start 5 seconds", promptStep2 |-> "Start 5 seconds"]
Selections(prompt) == {ConfirmButton[prompt], "Cancel", "dismissed"}

\* an entry of the session's log: what happened, and how many commands had
\* been written to the tracker by then
Ev(ev, what) == [ev |-> ev, what |-> what, w |-> Len(written)]
Checked(ed) == Ev("check", IF ed THEN "editor" ELSE "none")

\* a variant of EditorMissing: the step goes on without an editor
EditorNeverMissing(ed) == FALSE

\* `if (!editor)` on vscode.window.activeTextEditor
EditorMissing(ed) == ~ed

\* a variant of Confirmed: any answer continues the sequence
ConfirmedAlways(sel, prompt) == TRUE

\* `selection === "<button>"`
Confirmed(sel, prompt) == sel = ConfirmButton[prompt]

\* a variant of Unwind: the calibration text stays in the active column
UnwindNoRestore(s, log) ==
  [s EXCEPT !.pc = "ended", !.log = log \o <<Ev("notice", CalibrationDone)>>]

\* a variant of Unwind: the content provider stays registered
UnwindNoDispose(s, log) ==
  [s EXCEPT !.pc = "ended", !.doc = "user",
            !.log = log \o <<Ev("restore", "user"), Ev("notice", CalibrationDone)>>]

\* promptGp3Calibration has returned to openCalibrationText: the calibration
\* text is closed, the previous document re-opened in the active column, the
\* content provider disposed, and the promise of openCalibrationText resolves,
\* which shows the final notice
Unwind(s, log) ==
  [s EXCEPT !.pc = "ended", !.doc = "user", !.provider = "disposed",
            !.log = log \o <<Ev("restore", "user"), Ev("notice", CalibrationDone)>>]

\* the command handler, and openCalibrationText up to its prompt; both read
\* activeTextEditor in the same turn of the event loop
Launch(ed) ==
  /\ session.pc = "idle"
  /\ session' =
       IF EditorMissing(ed)
       THEN [session EXCEPT !.pc = "ended",
                            !.log = <<Checked(ed), Ev("notice", NoActiveEditor)>>]
       ELSE IF EditorMissing(ed)
       THEN [session EXCEPT !.pc = "ended",
                            !.log = <<Checked(ed), Checked(ed),
                                      Ev("notice", NoActiveEditor),
                                      Ev("notice", CalibrationDone)>>]
       ELSE [session EXCEPT !.pc = "promptOpen",
                            !.log = <<Checked(ed), Checked(ed),
                                      Ev("prompt", "promptOpen")>>]
  /\ UNCHANGED <<now, sock, isConnected, written, calls, ackVars, streamVars, calVars>>
  /\ UNCHANGED extVars

\* the user answers "Ready to open calibration text.": on "Open" the content
\* provider is registered and the calibration text shown in the active column
AnswerOpen(sel) ==
  /\ session.pc = "promptOpen"
  /\ LET log == Append(session.log, Ev("answer", sel))
     IN  IF Confirmed(sel, "promptOpen")
         THEN /\ session' = [session EXCEPT !.pc = "waitGp3", !.doc = "calibration",
                                            !.provider = "registered",
                                            !.log = Append(log, Ev("replace", "calibration"))]
              /\ timers' = {[kind |-> "sessionWait", due |-> now + SessionWaitDelay]}
         ELSE /\ session' = [session EXCEPT !.pc = "ended",
                                            !.log = log \o <<Ev("notice", CalibrationCancelled),
                                                             Ev("notice", CalibrationDone)>>]
              /\ UNCHANGED timers
  /\ UNCHANGED <<now, sock, isConnected, written, calls, ackVars, streamVars,
                 beginCall, cal, ends>>
  /\ UNCHANGED extVars

\* a variant of PromptAfter: the wait after the device calibration leads to
\* the prompt of step 2
PromptAfterSkipping == [waitGp3 |-> "promptGp3", waitStep1 |-> "promptStep2",
                        waitStep2 |-> "promptStep2"]

\* the prompt a wait of the session leads to
PromptAfter == [waitGp3 |-> "promptGp3", waitStep1 |-> "promptStep1",
                waitStep2 |-> "promptStep2"]

\* the 2000 ms wait is over: promptGp3Calibration, promptWindowCalibration or
\* promptWindowCalibration2 reads activeTextEditor and shows its prompt
Prompt(ed) ==
  /\ session.pc \in DOMAIN PromptAfter
  /\ [kind |-> "sessionWait", due |-> now] \in timers
  /\ timers' = {}
  /\ LET log == Append(session.log, Checked(ed))
     IN  session' =
           IF EditorMissing(ed)
           THEN Unwind(session, Append(log, Ev("notice", NoActiveEditor)))
           ELSE [session EXCEPT !.pc = PromptAfter[session.pc],
                                !.log = Append(log, Ev("prompt", PromptAfter[session.pc]))]
  /\ UNCHANGED <<now, sock, isConnected, written, calls, ackVars, streamVars,
                 beginCall, cal, ends>>
  /\ UNCHANGED extVars

\* the user answers "Ready to calibrate the eye tracker.": the tracker is
\* constructed and begin() called (the action Begin), or the sequence returns
AnswerGp3(sel) ==
  /\ session.pc = "promptGp3"
  /\ LET log == Append(session.log, Ev("answer", sel))
     IN  session' =
           IF Confirmed(sel, "promptGp3")
           THEN [session EXCEPT !.pc = "begin", !.tracker = TRUE,
                                !.log = Append(log, Ev("tracker", "constructed"))]
           ELSE Unwind(session, Append(log, Ev("notice", CalibrationCancelled)))
  /\ UNCHANGED <<now, sock, isConnected, written, calls, ackVars, streamVars, calVars>>
  /\ UNCHANGED extVars

\* `await tracker.begin()` continues once begin has resolved
BeginResolved ==
  /\ session.pc = "begin"
  /\ beginCall.pc = "resolved"
  /\ session' = [session EXCEPT !.pc = "waitStep1",
                   !.log = Append(@, Ev("notice", "Eye tracker calibrated successfully."))]
  /\ timers' = {[kind |-> "sessionWait", due |-> now + SessionWaitDelay]}
  /\ UNCHANGED <<now, sock, isConnected, written, calls, ackVars, streamVars,
                 beginCall, cal, ends>>
  /\ UNCHANGED extVars

\* the user answers the prompt of step 1 or of step 2: the stare wait
\* (calibrateUpperLeft / calibrateLowerRight) starts, or the sequence returns
AnswerStep(sel) ==
  /\ session.pc \in {"promptStep1", "promptStep2"}
  /\ LET log == Append(session.log, Ev("answer", sel))
     IN  IF Confirmed(sel, session.pc)
         THEN /\ session' = [session EXCEPT
                               !.pc = IF @ = "promptStep1" THEN "stare1" ELSE "stare2",
                               !.log = Append(log, Ev("stare", session.pc))]
              /\ timers' = {[kind |-> "stare", due |-> now + StareDelay]}
         ELSE /\ session' = Unwind(session, Append(log, Ev("notice", CalibrationCancelled)))
              /\ UNCHANGED timers
  /\ UNCHANGED <<now, sock, isConnected, written, calls, ackVars, streamVars,
                 beginCall, cal, ends>>
  /\ UNCHANGED extVars

\* the stare wait is over
StareTimer ==
  /\ session.pc \in {"stare1", "stare2"}
  /\ [kind |-> "stare", due |-> now] \in timers
  /\ IF session.pc = "stare1"
     THEN /\ session' = [session EXCEPT !.pc = "waitStep2",
                           !.log = Append(@, Ev("notice", "Upper left calibrated."))]
          /\ timers' = {[kind |-> "sessionWait", due |-> now + SessionWaitDelay]}
     ELSE /\ session' = Unwind(session,
                           Append(session.log, Ev("notice", "Lower right calibrated.")))
          /\ timers' = {}
  /\ UNCHANGED <<now, sock, isConnected, written, calls, ackVars, streamVars,
                 beginCall, cal, ends>>
  /\ UNCHANGED extVars

\* the session has constructed its tracker and called begin()
TrackerLive == session.tracker /\ beginCall.pc # "idle"

----------------------------------------------------------------------------
(* The tag manager (src/unnamed/part_002, class TagManager). *)

MaxTagEntries == 3  \* entries in the tag log when the last user command runs
MaxExtTime == 2     \* seconds the clock of the extension runs
MaxRecordings == 2  \* ffmpeg processes spawned in one behaviour
MaxWriteFailures == 1  \* handlers in which a write to the tag log fails

\* a second, in the milliseconds of setTimeout
Second == 1000

\* the opening and closing tag of a session, and the tags the user enters
Start == <<"start">>
TagChoices == {<<"a">>, <<"b">>}

\* the delays the user enters, in seconds
DelayChoices == {1, 2}

\* the tags whose file writes fail during one run of finalize
FailChoices == {{}, {<<"a">>}, {Start}}

\* new Date().getFullYear() during the session
Year == 2025

\* the first line of the file
Header == <<"tag", ",", "timestamp", ",", "visible", "\n">>

\* the timestamp of an entry written at clock t: the year for the start tag,
\* toISOString().slice(0, 19) for the others
TimestampText(tag, t) ==
  IF tag = Start THEN <<ToString(Year)>>
  ELSE <<ToString(Year), "-01-01T00:00:", ToString(t \div Second)>>

\* `visible ? "True" : "False"`
VisibleStr(visible) == IF visible THEN <<"True">> ELSE <<"False">>

\* the line appendEntry writes
EntryLine(tag, t, visible) ==
  tag \o <<",">> \o TimestampText(tag, t) \o <<",">> \o VisibleStr(visible)
    \o <<"\n">>

\* Set.prototype.has / add / delete and Map.prototype.has on a collection kept
\* in insertion order
Has(seq, x) == \E i \in 1..Len(seq) : seq[i] = x
SetAdd(seq, x) == IF Has(seq, x) THEN seq ELSE Append(seq, x)
SetDelete(seq, x) == SelectSeq(seq, LAMBDA y : y # x)
Elements(seq) == {seq[i] : i \in 1..Len(seq)}

\* Map.prototype.has / get / set / delete on activeDelayedTags, a sequence of
\* [tag, id] in insertion order
MapHas(map, tag) == \E i \in 1..Len(map) : map[i].tag = tag
MapGet(map, tag) == (CHOOSE e \in Elements(map) : e.tag = tag).id
MapSet(map, tag, id) ==
  IF MapHas(map, tag)
  THEN [i \in 1..Len(map) |->
          IF map[i].tag = tag THEN [tag |-> tag, id |-> id] ELSE map[i]]
  ELSE Append(map, [tag |-> tag, id |-> id])
MapDelete(map, tag) == SelectSeq(map, LAMBDA e : e.tag # tag)

\* the file, the visible set and the log of calls as appendEntry reads and
\* leaves them
Store == [visibleTags |-> tagManager.visibleTags, file |-> tagFile, log |-> tagLog]

\* a write may fail in this handler: few enough have failed so far
MayFail(ok) ==
  ok \/ Len(SelectSeq(tagLog, LAMBDA c : ~c.ok)) < MaxWriteFailures

\* an entry of the log of calls: the arguments of appendEntry, whether its
\* file write succeeded, the caller, the delay (of addTagWithDelay) and the clock
Call(tag, visible, ok, by, delay) ==
  [tag |-> tag, visible |-> visible, ok |-> ok, by |-> by, delay |-> delay,
   at |-> now]

\* a variant of AppendEntry: the visible set is updated before the write, so
\* also when the write fails
AppendEntryEager(st, tag, visible, ok, by, delay) ==
  [visibleTags |-> IF visible THEN SetAdd(st.visibleTags, tag)
                   ELSE SetDelete(st.visibleTags, tag),
   file |-> IF ok THEN st.file \o EntryLine(tag, now, visible) ELSE st.file,
   log |-> Append(st.log, Call(tag, visible, ok, by, delay))]

\* appendEntry: the line is appended and the visible set updated; when
\* appendFileSync throws, the catch leaves the file and the set as they were
AppendEntry(st, tag, visible, ok, by, delay) ==
  IF ok
  THEN [visibleTags |-> IF visible THEN SetAdd(st.visibleTags, tag)
                        ELSE SetDelete(st.visibleTags, tag),
        file |-> st.file \o EntryLine(tag, now, visible),
        log |-> Append(st.log, Call(tag, visible, ok, by, delay))]
  ELSE [st EXCEPT !.log = Append(@, Call(tag, visible, ok, by, delay))]

RECURSIVE SplitAt(_, _, _)
\* String.prototype.split on one separator glyph
SplitAt(s, sep, cur) ==
  IF s = <<>> THEN <<cur>>
  ELSE IF Head(s) = sep THEN <<cur>> \o SplitAt(Tail(s), sep, <<>>)
  ELSE SplitAt(Tail(s), sep, Append(cur, Head(s)))

\* parseInt of a timestamp field: its leading digits, NaN (-1) without any
ParseInt(field) ==
  IF field # <<>> /\ Head(field) = ToString(Year) THEN Year ELSE -1

\* the field of a split line, undefined (the empty text) when there is none
Field(fields, i) == IF i <= Len(fields) THEN fields[i] ELSE <<>>

\* the entry getAllEntries makes of one line
ReadEntry(line) ==
  LET fields == SplitAt(line, ",", <<>>)
  IN  [tag |-> Field(fields, 1), timestamp |-> ParseInt(Field(fields, 2)),
       visible |-> Field(fields, 3) = <<"true">>]

\* getAllEntries: the lines after the header that are not blank, each read
GetAllEntries(file) ==
  LET lines == Tail(SplitAt(file, "\n", <<>>))
      kept == SelectSeq(lines, LAMBDA line : Trim(line) # <<>>)
  IN  [i \in 1..Len(kept) |-> ReadEntry(kept[i])]

\* a variant of ClearTimeout: the timer keeps running
ClearTimeoutNone(pending, id) == pending

\* clearTimeout on the timer with this id
ClearTimeout(pending, id) == {t \in pending : t.id # id}

RECURSIVE CloseDelayed(_, _, _)
\* the first loop of finalize over activeDelayedTags: an invisible entry for
\* each tag that is still visible
CloseDelayed(st, map, fail) ==
  IF map = <<>> THEN st
  ELSE CloseDelayed(IF Has(st.visibleTags, Head(map).tag)
                    THEN AppendEntry(st, Head(map).tag, FALSE,
                                     Head(map).tag \notin fail, "finalize", 0)
                    ELSE st,
                    Tail(map), fail)

RECURSIVE ClearAll(_, _)
\* the clearTimeout calls of that loop
ClearAll(pending, map) ==
  IF map = <<>> THEN pending
  ELSE ClearAll(ClearTimeout(pending, Head(map).id), Tail(map))

RECURSIVE CloseVisible(_, _, _)
\* the second loop of finalize over a copy of visibleTags: an invisible entry
\* for each tag but start
CloseVisible(st, tagsToClose, fail) ==
  IF tagsToClose = <<>> THEN st
  ELSE CloseVisible(IF Head(tagsToClose) # Start
                    THEN AppendEntry(st, Head(tagsToClose), FALSE,
                                     Head(tagsToClose) \notin fail, "finalize", 0)
                    ELSE st,
                    Tail(tagsToClose), fail)

\* a variant of Finalize: only the tags with a running delay are closed
FinalizeDelayedOnly(st, map, fail) ==
  AppendEntry(CloseDelayed(st, map, fail), Start, FALSE, Start \notin fail,
              "finalize", 0)

\* finalize: the two loops, then the closing entry (start, False)
Finalize(st, map, fail) ==
  LET closed == CloseDelayed(st, map, fail)
  IN  AppendEntry(CloseVisible(closed, closed.visibleTags, fail), Start, FALSE,
                  Start \notin fail, "finalize", 0)

\* what a run of finalize leaves: the file, the log, the timers, the record of
\* the run, and the manager with its map cleared
FinalizeRun(fail) ==
  LET st == Finalize(Store, tagManager.activeDelayedTags, fail)
  IN  [file |-> st.file, log |-> st.log,
       timers |-> ClearAll(tagTimers, tagManager.activeDelayedTags),
       run |-> [visibleBefore |-> Elements(tagManager.visibleTags),
                timersBefore |-> tagTimers,
                from |-> Len(tagLog), to |-> Len(st.log),
                visibleAfter |-> Elements(st.visibleTags),
                timersAfter |-> ClearAll(tagTimers, tagManager.activeDelayedTags)],
       manager |-> [exists |-> TRUE, visibleTags |-> st.visibleTags,
                    activeDelayedTags |-> <<>>]]

\* `recordingManager.isRecording()`
IsRecording == recordingManager.ffmpegProcess # 0

\* the delay of stopRecording's fallback, in milliseconds
StopDelay == 1000

\* stopRecording with a recording in progress: "q" is written to the process
\* and the SIGTERM fallback armed
StopBody ==
  /\ ffmpeg' = [ffmpeg EXCEPT ![recordingManager.ffmpegProcess] = "quitting"]
  /\ stopTimers' = stopTimers \cup
       {[due |-> now + StopDelay, stopped |-> recordingManager.ffmpegProcess]}

\* `if (recordingManager && recordingManager.isRecording()) stopRecording()`
StopIfRecording ==
  IF recordingManager.exists /\ IsRecording
  THEN StopBody
  ELSE UNCHANGED <<ffmpeg, stopTimers>>

\* `if (tagManager) tagManager.finalize()`, and whether the global is set to
\* null afterwards
FinalizeIfExists(fail, forget) ==
  IF tagManager.exists
  THEN LET r == FinalizeRun(fail)
       IN  /\ MayFail(fail = {})
           /\ tagManager' = IF forget THEN NoTagManager ELSE r.manager
           /\ tagFile' = r.file
           /\ tagLog' = r.log
           /\ tagTimers' = r.timers
           /\ finalizeRuns' = Append(finalizeRuns, r.run)
  ELSE UNCHANGED tagVars

\* the command gp3attention.initializeTagManager: the constructor writes the
\* header and appends (start, True)
InitializeTagManager(ok) ==
  /\ extension = "active"
  /\ MayFail(ok)
  /\ ~tagManager.exists
  /\ tagLog = <<>>
  /\ LET st == AppendEntry([visibleTags |-> <<>>, file |-> Header, log |-> <<>>],
                           Start, TRUE, ok, "init", 0)
     IN  /\ tagManager' = [exists |-> TRUE, visibleTags |-> st.visibleTags,
                           activeDelayedTags |-> <<>>]
         /\ tagFile' = st.file
         /\ tagLog' = st.log
  /\ UNCHANGED <<now, trackerVars, extension, tagTimers, finalizeRuns, recVars>>

\* the command gp3attention.addTag, once the user has entered the tag and
\* chosen its visibility
AddTag(tag, visible, ok) ==
  /\ extension = "active"
  /\ MayFail(ok)
  /\ tagManager.exists
  /\ Len(tagLog) < MaxTagEntries
  /\ LET st == AppendEntry(Store, tag, visible, ok, "addTag", 0)
     IN  /\ tagManager' = [tagManager EXCEPT !.visibleTags = st.visibleTags]
         /\ tagFile' = st.file
         /\ tagLog' = st.log
  /\ UNCHANGED <<now, trackerVars, extension, tagTimers, finalizeRuns, recVars>>

\* the command gp3attention.addTagWithDelay, once the user has entered the tag
\* and the delay
AddTagWithDelay(tag, delaySeconds, ok) ==
  /\ extension = "active"
  /\ MayFail(ok)
  /\ tagManager.exists
  /\ Len(tagLog) < MaxTagEntries
  /\ LET st == AppendEntry(Store, tag, TRUE, ok, "delay", delaySeconds)
         map == tagManager.activeDelayedTags
         kept == IF MapHas(map, tag) THEN ClearTimeout(tagTimers, MapGet(map, tag))
                 ELSE tagTimers
         id == Len(tagLog) + 1
     IN  /\ tagManager' = [tagManager EXCEPT !.visibleTags = st.visibleTags,
                              !.activeDelayedTags = MapSet(map, tag, id)]
         /\ tagFile' = st.file
         /\ tagLog' = st.log
         /\ tagTimers' = kept \cup
              {[id |-> id, tag |-> tag, due |-> now + delaySeconds * Second]}
  /\ UNCHANGED <<now, trackerVars, extension, finalizeRuns, recVars>>

\* the tags the command gp3attention.toggleTagVisibility offers
TagOptions == {e.tag : e \in Elements(GetAllEntries(tagFile))}

\* the command gp3attention.toggleTagVisibility, once the user has selected
\* one of the offered tags
ToggleTagVisibility(tag, ok) ==
  /\ extension = "active"
  /\ MayFail(ok)
  /\ tagManager.exists
  /\ Len(tagLog) < MaxTagEntries
  /\ tag \in TagOptions
  /\ LET st == AppendEntry(Store, tag, ~Has(tagManager.visibleTags, tag), ok,
                           "toggle", 0)
     IN  /\ tagManager' = [tagManager EXCEPT !.visibleTags = st.visibleTags]
         /\ tagFile' = st.file
         /\ tagLog' = st.log
  /\ UNCHANGED <<now, trackerVars, extension, tagTimers, finalizeRuns, recVars>>

\* the timer of addTagWithDelay fires
TagTimerFires(ok) ==
  \E t \in tagTimers :
    /\ t.due = now
    /\ MayFail(ok)
    /\ LET st == AppendEntry(Store, t.tag, FALSE, ok, "timer", 0)
       IN  /\ tagManager' = [tagManager EXCEPT !.visibleTags = st.visibleTags,
                                !.activeDelayedTags = MapDelete(@, t.tag)]
           /\ tagFile' = st.file
           /\ tagLog' = st.log
    /\ tagTimers' = tagTimers \ {t}
    /\ UNCHANGED <<now, trackerVars, extension, finalizeRuns, recVars>>

\* the command gp3attention.finalizeSession
FinalizeSession(fail) ==
  /\ extension = "active"
  /\ FinalizeIfExists(fail, TRUE)
  /\ StopIfRecording
  /\ UNCHANGED <<now, trackerVars, extension, recordingManager, signals>>

\* the extension host deactivates the extension: it calls deactivate()
Deactivate(fail) ==
  /\ extension = "active"
  /\ extension' = "deactivated"
  /\ FinalizeIfExists(fail, FALSE)
  /\ StopIfRecording
  /\ UNCHANGED <<now, trackerVars, recordingManager, signals>>

\* and then disposes the subscriptions, the cleanup of activate among them
Dispose(fail) ==
  /\ extension = "deactivated"
  /\ extension' = "disposed"
  /\ FinalizeIfExists(fail, FALSE)
  /\ StopIfRecording
  /\ UNCHANGED <<now, trackerVars, recordingManager, signals>>

\* a second passes while a timer is pending, unless one is due
ExtTick ==
  /\ now < MaxExtTime * Second
  /\ tagTimers \cup stopTimers # {}
  /\ \A t \in tagTimers \cup stopTimers : t.due > now
  /\ now' = now + Second
  /\ UNCHANGED <<trackerVars, extVars>>

----------------------------------------------------------------------------
(* The recording manager (src/unnamed/part_002, class RecordingManager). *)

\* the command gp3attention.startRecording: the manager is made on first use,
\* and ffmpeg spawned unless a recording is in progress
StartRecording ==
  /\ extension = "active"
  /\ Len(ffmpeg) < MaxRecordings
  /\ IF IsRecording
     THEN /\ recordingManager' = [recordingManager EXCEPT !.exists = TRUE]
          /\ ffmpeg' = ffmpeg
     ELSE /\ recordingManager' = [exists |-> TRUE, ffmpegProcess |-> Len(ffmpeg) + 1]
          /\ ffmpeg' = Append(ffmpeg, "running")
  /\ UNCHANGED <<now, trackerVars, extension, tagVars, stopTimers, signals>>

\* the command gp3attention.stopRecording
StopRecording ==
  /\ extension = "active"
  /\ recordingManager.exists
  /\ IsRecording
  /\ StopBody
  /\ UNCHANGED <<now, trackerVars, extension, tagVars, recordingManager, signals>>

\* an ffmpeg process has exited (on "q", on SIGTERM or by itself) and its
\* "close" event is delivered: cleanup()
ProcessClose(pid) ==
  /\ ffmpeg[pid] # "closed"
  /\ ffmpeg' = [ffmpeg EXCEPT ![pid] = "closed"]
  /\ recordingManager' = [recordingManager EXCEPT !.ffmpegProcess = 0]
  /\ UNCHANGED <<now, trackerVars, extension, tagVars, stopTimers, signals>>

\* the process the fallback of stopRecording signals: `this.ffmpegProcess`
\* as it is when the timer fires
KillTarget(t) == recordingManager.ffmpegProcess

\* the timer of stopRecording fires
StopTimerFires ==
  \E t \in stopTimers :
    /\ t.due = now
    /\ stopTimers' = stopTimers \ {t}
    /\ IF KillTarget(t) # 0
       THEN /\ signals' = Append(signals, [pid |-> KillTarget(t), stopped |-> t.stopped])
            /\ ffmpeg' = [ffmpeg EXCEPT ![KillTarget(t)] = "terminated"]
       ELSE UNCHANGED <<signals, ffmpeg>>
    /\ UNCHANGED <<now, trackerVars, extension, tagVars, recordingManager>>

----------------------------------------------------------------------------

\* The command/acknowledgement protocol in time: sends, polls and timeouts,
\* with the device's acknowledgements arriving as whole lines.
NextAck ==
  \/ ConnectCallback
  \/ CloseEvent
  \/ \E c \in SendChoices, o \in SendOptions : Send(c, o)
  \/ \E w \in 1..Len(waits) : Poll(w)
  \/ Tick
  \/ \E r \in AckRecords : DeviceEmit(r, MaxAcks)
  \/ DataEvent(Len(wire))
  \/ HandleLine

SpecAck == Init /\ [][NextAck]_vars

\* The waits of sends of one command that ask for an acknowledgement, with the
\* command's acknowledgement as the only data.
NextWait ==
  \/ ConnectCallback
  \/ CloseEvent
  \/ \E t \in AwaitChoices :
       Send(<<GET, CALIBRATE_SHOW, <<>> >>, [wait |-> TRUE, max_await |-> t])
  \/ \E w \in 1..Len(waits) : Poll(w)
  \/ Tick
  \/ DeviceEmit([tag |-> "ACK", val |-> CALIBRATE_SHOW], MaxAcks)
  \/ DataEvent(Len(wire))
  \/ HandleLine

\* The waits when timers keep firing: the clock advances, a poll that is due
\* runs, and the continuations of processIncoming run.
SpecAckLive ==
  /\ Init /\ [][NextWait]_vars
  /\ WF_vars(Tick)
  /\ WF_vars(\E w \in 1..Len(waits) : Poll(w))
  /\ WF_vars(HandleLine)

\* The incoming stream cut into data events at arbitrary places.
NextStream ==
  \/ ConnectCallback
  \/ CloseEvent
  \/ \E r \in DeviceRecords : DeviceEmit(r, MaxRecords)
  \/ \E n \in 1..Len(wire) : DataEvent(n)
  \/ HandleLine

SpecStream == Init /\ [][NextStream]_vars

\* The decimation of the counted telemetry records.
NextRec ==
  \/ ConnectCallback
  \/ CloseEvent
  \/ \E c \in FirstFrames, step \in FrameSteps : StartFrames(c, step)
  \/ DeviceBareFrame
  \/ DeviceFrame
  \/ DataEvent(Len(wire))
  \/ HandleLine

SpecRec == Init /\ [][NextRec]_vars

\* The text of the commands written by send.
NextMsg ==
  \/ ConnectCallback
  \/ CloseEvent
  \/ \E c \in MessageChoices :
       Send(c, [wait |-> FALSE, max_await |-> DefaultMaxAwait])

SpecMsg == Init /\ [][NextMsg]_vars

\* The tracking session with the tracker it constructs.
NextSession ==
  \/ \E ed \in BOOLEAN : Launch(ed)
  \/ \E sel \in Selections("promptOpen") : AnswerOpen(sel)
  \/ \E ed \in BOOLEAN : Prompt(ed)
  \/ \E sel \in Selections("promptGp3") : AnswerGp3(sel)
  \/ session.pc = "begin" /\ Begin
  \/ TrackerLive /\ ConnectCallback
  \/ TrackerLive /\ CloseEvent
  \/ TrackerLive /\ ErrorEvent
  \/ BeginPoll
  \/ CalStartTimer
  \/ CalHideTimer
  \/ BeginResolved
  \/ \E sel \in Selections("promptStep1") : AnswerStep(sel)
  \/ StareTimer
  \/ Advance

SpecSession == Init /\ [][NextSession]_vars

\* The tracking session when the event loop keeps running: a timer that is due
\* fires, time passes up to the next timer, the continuation of an await whose
\* promise has resolved runs, and a connection attempt does not hang for ever
\* (it connects or fails).  The user may leave a prompt unanswered.
SpecSessionLive ==
  /\ Init /\ [][NextSession]_vars
  /\ WF_vars(Advance)
  /\ WF_vars(session.pc = "begin" /\ Begin)
  /\ WF_vars(BeginPoll)
  /\ WF_vars(CalStartTimer)
  /\ WF_vars(CalHideTimer)
  /\ WF_vars(BeginResolved)
  /\ WF_vars(\E ed \in BOOLEAN : Prompt(ed))
  /\ WF_vars(StareTimer)
  /\ WF_vars(TrackerLive /\ ConnectCallback)

\* The connection's life, begin and the timed calibration.
NextCal ==
  \/ ConnectCallback
  \/ CloseEvent
  \/ ErrorEvent
  \/ Begin
  \/ BeginPoll
  \/ CalStartTimer
  \/ CalHideTimer
  \/ Advance
  \/ Close

SpecCal == Init /\ [][NextCal]_vars

\* The tag manager over the life of the extension; no recording is started.
NextTags ==
  \/ \E ok \in BOOLEAN : InitializeTagManager(ok)
  \/ \E tag \in TagChoices, visible \in BOOLEAN, ok \in BOOLEAN : AddTag(tag, visible, ok)
  \/ \E tag \in TagChoices, d \in DelayChoices, ok \in BOOLEAN :
       AddTagWithDelay(tag, d, ok)
  \/ \E tag \in TagChoices \cup {Start}, ok \in BOOLEAN : ToggleTagVisibility(tag, ok)
  \/ \E ok \in BOOLEAN : TagTimerFires(ok)
  \/ \E fail \in FailChoices : FinalizeSession(fail)
  \/ \E fail \in FailChoices : Deactivate(fail)
  \/ \E fail \in FailChoices : Dispose(fail)
  \/ ExtTick

SpecTags == Init /\ [][NextTags]_vars

\* The recordings over the life of the extension; no tag manager is made.
NextRecording ==
  \/ StartRecording
  \/ StopRecording
  \/ \E pid \in 1..Len(ffmpeg) : ProcessClose(pid)
  \/ StopTimerFires
  \/ \E fail \in FailChoices : FinalizeSession(fail)
  \/ \E fail \in FailChoices : Deactivate(fail)
  \/ \E fail \in FailChoices : Dispose(fail)
  \/ ExtTick

SpecRecording == Init /\ [][NextRecording]_vars

----------------------------------------------------------------------------
(* Properties of the acknowledgement protocol (SpecAck). *)

WaitIds == 1..Len(waits)

\* the tuple a wait's promise resolved with
Result(w) ==
  IF w.status = "Acknowledged" THEN <<TRUE, FALSE>>
  ELSE IF w.status = "TimedOut" THEN <<FALSE, TRUE>>
  ELSE <<>>

\* no ACK record has been handled so far
NoAckHandled == \A i \in 1..Len(handled) : handled[i].rec.tag # "ACK"

\* the number of entries of a list equal to msg
CountOf(list, msg) == Len(SelectSeq(list, LAMBDA m : m = msg))

\* the number of entries of a list whose command id is id
CountId(list, id) == Len(SelectSeq(list, LAMBDA m : CmdId(m) = id))

\* the number of waits for msg that have not resolved
PendingWaits(msg) ==
  Cardinality({i \in WaitIds : waits[i].msg = msg /\ waits[i].status = "pending"})

\* every acknowledgement handled so far carried the id of a command
OnlyCommandAcks ==
  \A i \in 1..Len(handled) :
    handled[i].rec.tag = "ACK" => handled[i].rec.val = CALIBRATE_SHOW

\* C1: a wait for which an ACK with its command id was handled at a time
\* t < T after the send resolves Acknowledged at its next poll, at most one
\* poll interval after the acknowledgement, and never resolves TimedOut.
C1_AckedBeforeTimeoutResolvesAcknowledged ==
  \A i \in WaitIds :
    LET w == waits[i]
    IN  (w.ackAt # -1 /\ w.ackAt - w.start < w.max_await) =>
          /\ w.status # "TimedOut"
          /\ w.status = "Acknowledged" => w.at <= w.ackAt + PollDelay(w.max_await)
          /\ w.status = "pending" => now <= w.ackAt + PollDelay(w.max_await)

\* C2: while no acknowledgement is delivered, a wait polls every T/5, is not
\* resolved Acknowledged, and resolves TimedOut at a time in [T, T + T/5],
\* its entry then being removed from the pending list (the list holds no
\* more entries for its message than there are unresolved waits for it).
C2_NoAckResolvesTimedOut ==
  NoAckHandled =>
    \A i \in WaitIds :
      LET w == waits[i]
      IN  /\ w.status # "Acknowledged"
          /\ w.status = "pending" =>
               /\ w.due >= now /\ w.due <= now + PollDelay(w.max_await)
               /\ now - w.start <= w.max_await
          /\ w.status = "TimedOut" =>
               /\ w.at - w.start >= w.max_await
               /\ w.at - w.start <= w.max_await + PollDelay(w.max_await)
               /\ CountOf(unacknowledged, w.msg) <= PendingWaits(w.msg)

\* C3: a wait resolves Acknowledged only if an ACK record carrying its
\* command's id was handled between the send and the resolution; stated for
\* the behaviours in which the device acknowledges with command ids only.
C3_AcknowledgedOnlyAfterAck ==
  OnlyCommandAcks =>
    \A i \in WaitIds : waits[i].status = "Acknowledged" => waits[i].ackAt # -1

RECURSIVE RemoveFirstWithId(_, _)
\* a list without its first (oldest) entry whose command id is id
RemoveFirstWithId(list, id) ==
  IF list = <<>> THEN <<>>
  ELSE IF CmdId(Head(list)) = id THEN Tail(list)
  ELSE <<Head(list)>> \o RemoveFirstWithId(Tail(list), id)

\* C4 (as claimed): an ACK with id X handled while several pending entries
\* have command id X removes exactly one entry, the first one, and every
\* other pending entry for X stays pending.
C4_OnlyFirstEntryRemoved ==
  CountId(ackEffect.before, ackEffect.id) >= 2 =>
    ackEffect.after = RemoveFirstWithId(ackEffect.before, ackEffect.id)

\* C4 (amended): an ACK with id X handled while several pending entries have
\* command id X removes every one of them: no entry for X stays pending.
C4_EveryEntryForIdRemoved ==
  CountId(ackEffect.before, ackEffect.id) >= 2 =>
    CountId(ackEffect.after, ackEffect.id) = 0

C4_Witness ==
  /\ CountId(ackEffect.before, ackEffect.id) >= 2
  /\ ackEffect.before[1] # ackEffect.before[2]
  /\ ackEffect.after = <<>>

\* C5: an ACK whose id is Y never removes a pending entry whose command id
\* differs from Y, whatever its mode, parameter keys or parameter values.
C5_MatchedOnCommandIdOnly ==
  SelectSeq(ackEffect.after, LAMBDA m : CmdId(m) # ackEffect.id)
    = SelectSeq(ackEffect.before, LAMBDA m : CmdId(m) # ackEffect.id)

\* C6: a send while not connected writes nothing, adds nothing to the pending
\* list and returns [false, false]; a send while connected writes its message
\* at once.
C6_SendWhenNotConnected ==
  lastSend.call > 0 =>
    /\ ~lastSend.connected =>
         /\ lastSend.wrote = 0
         /\ lastSend.pushed = 0
         /\ lastSend.result = <<FALSE, FALSE>>
    /\ lastSend.connected =>
         /\ lastSend.wrote = 1
         /\ lastSend.result # <<FALSE, FALSE>>

\* a send after the close event, on a client that had written before
C6_Witness ==
  /\ lastSend.call > 0
  /\ ~lastSend.connected
  /\ sock = "closed"
  /\ written # <<>>

\* C9: the socket receives the messages in the order of the send calls.
C9_WritesInCallOrder ==
  \A i, j \in 1..Len(written) : i < j => written[i].call < written[j].call

\* two writes, the earlier call still waiting for its acknowledgement
C9_Witness ==
  /\ Len(written) = 2
  /\ \E i \in WaitIds :
       waits[i].call = written[1].call /\ waits[i].status = "pending"

----------------------------------------------------------------------------
(* Properties of the incoming stream (SpecStream). *)

\* the records handleXML handled (parsed, not dropped), in order
RecordsOf(log) ==
  [i \in 1..Len(SelectSeq(log, LAMBDA h : h.rec.tag # "error")) |->
     SelectSeq(log, LAMBDA h : h.rec.tag # "error")[i].rec]

\* what handleXML handles when the text arrives in one data event
WholeStream(text) ==
  LET todo == ToHandle(text, 0)
  IN  RecordsOf([i \in 1..Len(todo) |->
                   [n |-> todo[i].n, rec |-> ParseXML(todo[i].text), fwd |-> FALSE]])

\* C7: however the stream is cut into data events, the records handled are
\* those handled when the whole stream arrives in one data event.
C7_SplitStreamSameRecords ==
  Idle => RecordsOf(handled) = WholeStream(delivered)

\* C8: the effects of handling the lines happen in the order of arrival.
C8_HandledInArrivalOrder ==
  \A i, j \in 1..Len(handled) : i < j => handled[i].n < handled[j].n

\* two records handled, the second one an acknowledgement
C8_Witness ==
  /\ Len(handled) = 2
  /\ handled[1].rec.tag # "error"
  /\ handled[2].rec.tag = "ACK"

----------------------------------------------------------------------------
(* Properties of the calibration (SpecCal). *)

\* what calibrate() has written to the socket so far
CalWrites == SubSeq(written, cal.first, Len(written))

\* the messages of the writes of a log
Messages(log) == [i \in 1..Len(log) |-> log[i].msg]

\* C10: a calibration started on a connected client that stays connected
\* writes, by the time it resolves, exactly four commands: CALIBRATE_RESET and
\* CALIBRATE_SHOW STATE=1 at once, CALIBRATE_START STATE=1 after the first
\* delay, CALIBRATE_SHOW STATE=0 after the second delay; until the last one is
\* written it has not resolved.
C10_CalibrationWritesFourCommands ==
  (cal.pc # "idle" /\ ~cal.closed) =>
    /\ cal.pc = "complete" =>
         /\ Messages(CalWrites) =
              << Message(SET, CALIBRATE_RESET, <<>>),
                 Message(SET, CALIBRATE_SHOW, <<<<"STATE", "1">>>>),
                 Message(SET, CALIBRATE_START, <<<<"STATE", "1">>>>),
                 Message(SET, CALIBRATE_SHOW, <<<<"STATE", "0">>>>) >>
         /\ CalWrites[1].at = cal.startAt
         /\ CalWrites[2].at = cal.startAt
         /\ CalWrites[3].at = cal.startAt + CalStartDelay
         /\ CalWrites[4].at = cal.startAt + CalStartDelay + CalHideDelay
    /\ cal.pc = "waitStart" => Len(CalWrites) = 2
    /\ cal.pc = "waitHide" => Len(CalWrites) = 3

\* a calibration that resolved on a client that stayed connected
C10_Witness == cal.pc = "complete" /\ ~cal.closed /\ Len(CalWrites) = 4

\* C11: in every execution, also when the connection closes while the timers
\* of the calibration are pending, the calibration has resolved only if the
\* final hide command (CALIBRATE_SHOW STATE=0) was written to the socket.
C11_ResolvesOnlyAfterHideWritten ==
  cal.pc = "complete" =>
    /\ CalWrites # <<>>
    /\ CalWrites[Len(CalWrites)].msg = Message(SET, CALIBRATE_SHOW, State("0"))

----------------------------------------------------------------------------
(* Properties of the telemetry decimation (SpecRec). *)

\* the last 180 records handled, and the frame counter of the i-th of them
LastWindow == SubSeq(handled, Len(handled) - FramePeriod + 1, Len(handled))
WindowCnt(i) == ToNumber(LastWindow[i].rec.val)

\* the records of the window that were forwarded to the sink
WindowForwarded == {i \in 1..FramePeriod : LastWindow[i].fwd}

\* 180 telemetry records have been handled in a row
WindowOfRecords ==
  /\ Len(handled) >= FramePeriod
  /\ \A i \in 1..FramePeriod :
       LastWindow[i].rec.tag = "REC" /\ LastWindow[i].rec.val # Null

\* exactly one record of the window was forwarded, the one whose frame
\* counter is a multiple of 180
ExactlyOneForwarded ==
  /\ Cardinality(WindowForwarded) = 1
  /\ \A i \in WindowForwarded : WindowCnt(i) % FramePeriod = 0

\* C12 (as claimed): of 180 records handled in a row with strictly increasing
\* frame counters exactly one is forwarded, the one whose counter is 0 mod 180.
C12_OneOfIncreasingForwarded ==
  (/\ WindowOfRecords
   /\ \A i \in 1..(FramePeriod - 1) : WindowCnt(i) < WindowCnt(i + 1))
    => ExactlyOneForwarded

\* C12: of 180 records handled in a row whose frame counters are consecutive
\* integers exactly one is forwarded, the one whose counter is 0 mod 180.
C12_OneOfConsecutiveForwarded ==
  (/\ WindowOfRecords
   /\ \A i \in 1..(FramePeriod - 1) : WindowCnt(i + 1) = WindowCnt(i) + 1)
    => ExactlyOneForwarded

\* 180 records with consecutive counters handled, the forwarded one neither
\* the first nor the last of them
C12_Witness ==
  /\ WindowOfRecords
  /\ \A i \in 1..(FramePeriod - 1) : WindowCnt(i + 1) = WindowCnt(i) + 1
  /\ WindowForwarded = {91}

----------------------------------------------------------------------------
(* Properties of the empty-record marker (SpecStream). *)

\* the positions of the newlines of a text, and the position of the k-th one
NewlineAt(data) == {p \in 1..Len(data) : data[p] = "\n"}
NthNewline(data, k) ==
  IF k = 0 THEN 0
  ELSE CHOOSE p \in NewlineAt(data) :
         Cardinality({q \in NewlineAt(data) : q < p}) = k - 1

\* the complete lines of a text, trimmed: what stands before each newline
CompleteLines(data) ==
  [k \in 1..Cardinality(NewlineAt(data)) |->
     Trim(SubSeq(data, NthNewline(data, k - 1) + 1, NthNewline(data, k) - 1))]

\* the data a step delivers, and the lines the step passes on to handleXML
ChunkOfStep == SubSeq(delivered', Len(delivered) + 1, Len(delivered'))
QueuedByStep ==
  IF procs' = procs THEN <<>>
  ELSE [i \in 1..Len(procs'[Len(procs')]) |-> procs'[Len(procs')][i].text]

\* the record the empty-record marker would parse to
MarkerRecord == [tag |-> "REC", val |-> <<>>]

\* C13: a line that is, once trimmed, the empty-record marker is not handed to
\* handleXML (no record, nothing forwarded, no effect of any kind is ever made
\* for it), and every other complete line of a data event is handed to
\* handleXML, in order.
C13_MarkerSkippedOthersHandled ==
  /\ [](\A i \in 1..Len(handled) : handled[i].rec # MarkerRecord)
  /\ [][delivered' # delivered =>
          QueuedByStep = SelectSeq(CompleteLines(ChunkOfStep),
                                   LAMBDA l : l # EmptyRecordMarker)]_vars

\* the marker arrived as the first line, whole, and only the acknowledgement
\* that followed it was handled
C13_Witness ==
  /\ Newlines(delivered) = 2
  /\ CompleteLines(delivered)[1] = EmptyRecordMarker
  /\ Len(handled) = 1
  /\ handled[1].n = 2
  /\ handled[1].rec.tag = "ACK"

----------------------------------------------------------------------------
(* Properties of the message text (SpecMsg). *)

\* the message is: "<", SET or GET, ` ID="id"`, then for the k-th parameter
\* ` KEY="value"` at the k-th place, then ` />`, CR, LF, and nothing else
IsCommandText(msg, set, id, parameters) ==
  /\ Len(msg) = 8 + 6 * Len(parameters) + 4
  /\ SubSeq(msg, 1, 8) =
       <<"<", IF set THEN "SET" ELSE "GET", " ", "ID", "=", "\"", id[1], "\"">>
  /\ \A k \in 1..Len(parameters) :
       SubSeq(msg, 6 * k + 3, 6 * k + 8) =
         <<" ", parameters[k][1], "=", "\"", parameters[k][2], "\"">>
  /\ SubSeq(msg, Len(msg) - 3, Len(msg)) = <<" ", "/>", "\r", "\n">>

\* C14: the message a send writes is <SET or GET, ID="id", each parameter as
\* KEY="value" in the caller's order, then " />" and CR LF; with no parameter
\* the tag carries the ID attribute only.
C14_MessageText ==
  [][\A c \in MessageChoices :
       (isConnected /\ Send(c, [wait |-> FALSE, max_await |-> DefaultMaxAwait]))
         => /\ Len(written') = Len(written) + 1
            /\ IsCommandText(written'[Len(written')].msg, c[1], c[2], c[3])
            /\ c[3] = <<>> =>
                 written'[Len(written')].msg =
                   <<"<", IF c[1] THEN "SET" ELSE "GET", " ", "ID", "=", "\"",
                     c[2][1], "\"", " ", "/>", "\r", "\n">>]_vars

\* a command with two parameters, the keys not in alphabetical order, and one
\* without parameters have been written
C14_Witness ==
  /\ Len(written) = 2
  /\ written[1].msg = Message(SET, CALIBRATE_SHOW, << <<"X", "1">>, <<"STATE", "1">> >>)
  /\ written[2].msg = Message(GET, CALIBRATE_SHOW, <<>>)

----------------------------------------------------------------------------
(* Properties of the tracking session (SpecSession). *)

LogIds == 1..Len(session.log)

\* the entries of the log that are a check which found no active editor, and
\* those that are an answer other than the prompt's confirming button
NoEditorChecks ==
  {i \in LogIds : session.log[i].ev = "check" /\ session.log[i].what = "none"}
Declines ==
  {i \in LogIds : session.log[i].ev = "answer"
                    /\ session.log[i].what \in {"Cancel", "dismissed"}}

\* after entry i the session showed no prompt, took no answer, started no
\* stare wait, constructed no tracker, and no command was written since
NothingFollows(i) ==
  /\ \A j \in LogIds :
       j > i => session.log[j].ev \notin {"prompt", "answer", "stare", "tracker"}
  /\ Len(written) = session.log[i].w

\* C15: a step that finds no active editor shows "No active editor!" and
\* stops: at launch no tracker is constructed and nothing is written; at a
\* later step no prompt, no stare wait and no further command follows.
C15_NoEditorStops ==
  \A i \in NoEditorChecks :
    /\ session.pc = "ended"
    /\ i < Len(session.log)
    /\ session.log[i + 1] = [ev |-> "notice", what |-> NoActiveEditor,
                              w |-> session.log[i].w]
    /\ NothingFollows(i)
    /\ i = 1 => ~session.tracker /\ written = <<>>

\* no editor was found before the prompt of a window calibration step, after
\* the tracker had written the commands of begin()
C15_Witness ==
  \E i \in NoEditorChecks :
    /\ session.log[i].w = Len(EnableSends) + Len(CalibrateSends) + 2
    /\ session.tracker

\* the calibration text replaced the user's document at entry i of the log
Replaced(i) == session.log[i].ev = "replace"

\* C16: a run in which the calibration text replaced the user's document has,
\* when it ends, re-opened the prior document in the active column, whether
\* the user confirmed every prompt or declined a later one.
C16_PriorDocumentRestored ==
  (session.pc = "ended" /\ \E i \in LogIds : Replaced(i)) =>
    /\ session.doc = "user"
    /\ \E i, j \in LogIds : i < j /\ Replaced(i) /\ session.log[j].ev = "restore"

\* a run that replaced the document and ended after the user declined step 2
C16_Witness ==
  /\ session.pc = "ended"
  /\ session.doc = "user"
  /\ \E i, j \in LogIds :
       /\ Replaced(i)
       /\ j \in Declines
       /\ session.log[j - 1] = [ev |-> "prompt", what |-> "promptStep2",
                                 w |-> session.log[j].w]

\* C17: in a run in which the user declined a prompt the completion notice
\* "Calibration done!" is never shown.
C17_DeclineNotReportedDone ==
  Declines # {} =>
    \A j \in LogIds : session.log[j] # [ev |-> "notice", what |-> CalibrationDone,
                                         w |-> session.log[j].w]

\* C18: after the user declines the prompt of a step, no prompt is shown, no
\* stare wait is started and no further command is written to the tracker.
C18_DeclineShortCircuits ==
  \A i \in Declines : NothingFollows(i) /\ session.pc = "ended"

\* the user declined step 1 after the tracker was calibrated, and the tracker's
\* socket is still open
C18_Witness ==
  \E i \in Declines :
    /\ session.log[i - 1].what = "promptStep1"
    /\ session.log[i].w > 0
    /\ isConnected

----------------------------------------------------------------------------
(* Properties of close() (SpecCal). *)

\* C19: over any number of close() calls, interleaved in any way with the
\* socket's close event, client.end() is issued at most once.
C19_EndIssuedAtMostOnce == ends.end <= 1

\* C20: once close() has returned on a connected client (it has issued
\* client.end()), the client is no longer connected, so that later sends fail
\* and write nothing.
C20_CloseDisconnects == (ends.end >= 1 /\ sock = "ended") => ~isConnected

----------------------------------------------------------------------------
(* Properties of the socket's error event (SpecCal). *)

\* C21: once the socket has reported an error the client is not connected any
\* more, so that every later send is rejected.
C21_ErrorDisconnects == sock = "errored" => ~isConnected

----------------------------------------------------------------------------
(* Properties of unrecognized and malformed lines. *)

\* C22: handling an ACK whose id is not a recognized command id leaves the
\* pending list as it was.
C22_UnrecognizedAckIgnored ==
  ackEffect.id \notin RecognizedIds => ackEffect.after = ackEffect.before

\* the line handleXML is about to handle, and whether it fails to parse
NextLine == Head(Head(procs))
NextLineMalformed == procs # <<>> /\ ParseXML(NextLine.text) = Malformed

\* C23: a line that fails to parse is dropped without any effect but its log
\* entry: the pending list and the connection are unchanged, the lines after
\* it in the same data event stay queued, and in the end every line that
\* reached processIncoming complete with its newline was handed to handleXML.
C23_MalformedLineDropped ==
  /\ [][(NextLineMalformed /\ handled' # handled) =>
          /\ handled' = Append(handled, [n |-> NextLine.n, rec |-> Malformed,
                                         fwd |-> FALSE])
          /\ unacknowledged' = unacknowledged
          /\ waits' = waits
          /\ isConnected' = isConnected /\ sock' = sock
          /\ Tail(Head(procs)) # <<>> => procs'[Len(procs')] = Tail(Head(procs))]_vars
  /\ [](Idle =>
          \A n \in 1..Newlines(delivered) :
            \/ \E i \in 1..Len(handled) : handled[i].n = n
            \/ CompleteLines(delivered)[n] = EmptyRecordMarker)

\* a well-formed line, then a malformed one and a well-formed one after it
\* have been handled
C23_Witness ==
  /\ Len(handled) = 3
  /\ handled[1].rec.tag = "ACK" /\ handled[1].n = 1
  /\ handled[2].rec = Malformed /\ handled[2].n = 2
  /\ handled[3].rec.tag = "ACK" /\ handled[3].n = 3

----------------------------------------------------------------------------
(* Properties of the pending list (SpecAck). *)

\* C24: the pending list holds only messages of sends that asked for an
\* acknowledgement and have not resolved: each message is in the list at most
\* as often as there are unresolved waits for it, and a send that did not ask
\* for an acknowledgement adds no entry.
C24_PendingListOwnedByWaits ==
  /\ \A i \in 1..Len(unacknowledged) :
       CountOf(unacknowledged, unacknowledged[i]) <= PendingWaits(unacknowledged[i])
  /\ lastSend.result = <<TRUE, FALSE>> => lastSend.pushed = 0

\* a send without acknowledgement followed a send with one, whose wait has
\* since timed out: the list is empty
C24_Witness ==
  /\ Len(waits) = 1
  /\ waits[1].status = "TimedOut"
  /\ lastSend.call = 2
  /\ lastSend.result = <<TRUE, FALSE>>
  /\ unacknowledged = <<>>

\* C25: a wait that times out removes its own entry only: as long as no
\* acknowledgement has been handled, the message of every other unresolved
\* wait is still in the pending list.
C25_TimeoutRemovesOwnEntryOnly ==
  NoAckHandled =>
    \A w \in WaitIds :
      waits[w].status = "pending" => Pending(unacknowledged, waits[w].msg)

----------------------------------------------------------------------------
(* Properties of the telemetry filter (SpecRec). *)

\* C26: a telemetry record is forwarded to the sink only if it carries a
\* frame counter and that counter is a multiple of 180.
C26_ForwardedOnlyWithCounter ==
  \A i \in 1..Len(handled) :
    (handled[i].rec.tag = "REC" /\ handled[i].fwd) =>
      /\ handled[i].rec.val # Null
      /\ ToNumber(handled[i].rec.val) % FramePeriod = 0

----------------------------------------------------------------------------
(* Termination of the waits (SpecAckLive). *)

\* the w-th wait exists and its timeout lies within the time the clock covers
WaitInTime(w) ==
  /\ w \in WaitIds
  /\ waits[w].start + waits[w].max_await <= MaxTime

WaitResolved(w) == w \in WaitIds /\ waits[w].status \in {"Acknowledged", "TimedOut"}

\* C27: every send that asked for an acknowledgement on a connected client
\* eventually resolves, Acknowledged or TimedOut, whether or not data arrives
\* and whether or not the connection closes meanwhile.
C27_EveryWaitResolves ==
  \A w \in 1..MaxCalls : [](WaitInTime(w) => <>WaitResolved(w))

\* a wait resolved after the connection had closed, no acknowledgement having
\* been handled
C27_Witness ==
  /\ NoAckHandled
  /\ ~isConnected
  /\ \E w \in WaitIds : waits[w].status = "TimedOut"

----------------------------------------------------------------------------
(* The results of send (SpecAck). *)

\* the tuples a send may resolve with; <<>> stands for a promise not resolved
SendResults == {<<TRUE, FALSE>>, <<FALSE, TRUE>>, <<FALSE, FALSE>>}

\* C28: a send results in [true,false], [false,true] or [false,false], never
\* in [true,true], and in [false,false] exactly when the client was not
\* connected at the call.
C28_SendResultTuples ==
  /\ lastSend.result \in SendResults \cup {<<>>}
  /\ \A w \in WaitIds :
       Result(waits[w]) \in {<<>>, <<TRUE, FALSE>>, <<FALSE, TRUE>>}
  /\ lastSend.call > 0 =>
       (lastSend.result = <<FALSE, FALSE>> <=> ~lastSend.connected)

\* a send timed out, and a later send found the client not connected
C28_Witness ==
  /\ Len(waits) = 1
  /\ Result(waits[1]) = <<FALSE, TRUE>>
  /\ lastSend.call = 2
  /\ lastSend.result = <<FALSE, FALSE>>

----------------------------------------------------------------------------
(* The order of the session's steps (SpecSession). *)

\* the entries of the log of a given kind, and whether one comes before entry j
Entries(ev, what) ==
  {i \in LogIds : session.log[i].ev = ev /\ session.log[i].what = what}
Precedes(ev, what, j) == \E i \in Entries(ev, what) : i < j

\* the time the device calibration takes, and the time from its start to the
\* end of the first stare wait
DeviceCalibrationTime == CalStartDelay + CalHideDelay
FirstStareEnd == DeviceCalibrationTime + SessionWaitDelay + StareDelay

\* C29: the steps run in a fixed order, each gated on the one before: the
\* tracker is constructed and calibrated only after "Start Calibration" was
\* confirmed; the prompt of step 1 is shown only after the device calibration
\* resolved; the prompt of step 2 only after step 1 was confirmed and its
\* stare wait elapsed; the sequence is done (the second point is calibrated)
\* only after step 2 was confirmed and its stare wait elapsed.
C29_StepsInOrder ==
  /\ (session.tracker \/ beginCall.pc # "idle") =>
       Entries("answer", "Start Calibration") # {}
  /\ \A j \in Entries("tracker", "constructed") :
       /\ session.log[j - 1].ev = "answer"
       /\ session.log[j - 1].what = "Start Calibration"
       /\ session.log[j].w = 0
  /\ \A j \in Entries("prompt", "promptStep1") :
       /\ beginCall.pc = "resolved" /\ cal.pc = "complete"
       /\ Precedes("tracker", "constructed", j)
       /\ now >= cal.startAt + DeviceCalibrationTime
  /\ \A j \in Entries("prompt", "promptStep2") :
       /\ Precedes("stare", "promptStep1", j)
       /\ Precedes("notice", "Upper left calibrated.", j)
       /\ now >= cal.startAt + FirstStareEnd
  /\ \A j \in Entries("notice", "Lower right calibrated.") :
       /\ Precedes("stare", "promptStep2", j)
       /\ \E i \in Entries("prompt", "promptStep2") :
            i < j /\ session.log[i + 1].what = "Start 5 seconds"
       /\ now >= cal.startAt + FirstStareEnd + SessionWaitDelay + StareDelay

\* the user confirmed every prompt and the second point has been calibrated
C29_Witness ==
  /\ Entries("notice", "Lower right calibrated.") # {}
  /\ session.pc = "ended"

----------------------------------------------------------------------------
(* Properties of begin() (SpecCal). *)

\* C30: begin() writes nothing before the connection is established; once
\* connected it writes ENABLE_SEND_DATA, ENABLE_SEND_COUNTER,
\* ENABLE_SEND_POG_BEST and ENABLE_SEND_POG_FIX, each with STATE=1, in that
\* order and before CALIBRATE_RESET; it resolves only when the calibration
\* has resolved.
C30_BeginEnablesThenCalibrates ==
  /\ beginCall.pc \in {"idle", "polling"} => written = <<>>
  /\ beginCall.pc \in {"calibrating", "resolved"} =>
       /\ Len(written) >= 5
       /\ SubSeq(Messages(written), 1, 5) =
            << Message(SET, ENABLE_SEND_DATA, <<<<"STATE", "1">>>>),
               Message(SET, ENABLE_SEND_COUNTER, <<<<"STATE", "1">>>>),
               Message(SET, ENABLE_SEND_POG_BEST, <<<<"STATE", "1">>>>),
               Message(SET, ENABLE_SEND_POG_FIX, <<<<"STATE", "1">>>>),
               Message(SET, CALIBRATE_RESET, <<>>) >>
       /\ \A i \in 1..5 : written[i].at = cal.startAt
  /\ beginCall.pc = "resolved" <=> cal.pc = "complete"

\* begin() found the client not connected at first, polled, and resolved
\* after the calibration
C30_Witness ==
  /\ beginCall.pc = "resolved"
  /\ beginCall.polls >= 1
  /\ cal.startAt > 0

----------------------------------------------------------------------------
(* C31..C33: the end of the tracking session. *)

\* C31: every call of begin() eventually resolves, also when the connection
\* attempt fails with a socket error or the socket closes before connecting.
C31_BeginEventuallyResolves ==
  [](beginCall.pc # "idle" => <>(beginCall.pc = "resolved"))

\* C32: when a session that constructed a tracker has ended, the tracker's
\* connection has been closed: client.end() was called, or the socket has
\* closed.
C32_TrackerClosedAtEnd ==
  (session.pc = "ended" /\ session.tracker) =>
    (ends.end > 0 \/ sock \in {"ended", "closed"})

\* the calibration text was opened in this run: the content provider was
\* registered for it
Registered == \E i \in 1..Len(session.log) : session.log[i].ev = "replace"

\* C33: when the run has ended, the content provider openCalibrationText
\* registered has been disposed, after completion and after a cancellation at
\* any later prompt; a run that registered none has none to dispose.
C33_ProviderDisposedAtEnd ==
  /\ session.provider = "registered" => (Registered /\ session.pc # "ended")
  /\ session.pc = "ended" =>
       session.provider = (IF Registered THEN "disposed" ELSE "none")

\* the run ended by "Cancel" at a window calibration prompt, after the tracker
\* was constructed, and the provider is disposed
C33_Witness ==
  /\ session.pc = "ended"
  /\ session.tracker
  /\ session.provider = "disposed"
  /\ \E i \in 1..Len(session.log) :
       session.log[i].ev = "answer" /\ session.log[i].what = "Cancel"

----------------------------------------------------------------------------
(* C34..C38: the tag manager. *)

\* the calls of appendEntry a run of finalize made
CallsOf(run) == SubSeq(tagLog, run.from + 1, run.to)

\* every file write of the run succeeded
WritesSucceeded(run) == \A j \in 1..Len(CallsOf(run)) : CallsOf(run)[j].ok

\* the invisible entries the run appended for a tag
ClosingsOf(run, tag) ==
  {j \in 1..Len(CallsOf(run)) :
     CallsOf(run)[j].tag = tag /\ ~CallsOf(run)[j].visible}

\* C34: after a run of finalize whose file writes succeed, no tag is visible,
\* no timer of a delayed tag is pending, every tag other than start that was
\* visible when the run began has exactly one invisible entry appended by the
\* run, and the last entry the run appended is (start, False).
C34_FinalizeClosesEverything ==
  \A i \in 1..Len(finalizeRuns) :
    LET run == finalizeRuns[i]
    IN  WritesSucceeded(run) =>
          /\ run.visibleAfter = {}
          /\ run.timersAfter = {}
          /\ \A tag \in run.visibleBefore \ {Start} :
               Cardinality(ClosingsOf(run, tag)) = 1
          /\ Len(CallsOf(run)) > 0
          /\ CallsOf(run)[Len(CallsOf(run))].tag = Start
          /\ ~CallsOf(run)[Len(CallsOf(run))].visible
          /\ tagFile # <<>>
          /\ run.to = Len(tagLog) =>
               SubSeq(tagFile, Len(tagFile) - Len(EntryLine(Start, now, FALSE)) + 1,
                      Len(tagFile)) = EntryLine(Start, now, FALSE)

\* finalize ran, its writes succeeded, and when it began two tags besides
\* start were visible, one of them with its delay still running
C34_Witness ==
  \E i \in 1..Len(finalizeRuns) :
    LET run == finalizeRuns[i]
    IN  /\ WritesSucceeded(run)
        /\ Cardinality(run.visibleBefore \ {Start}) = 2
        /\ Start \in run.visibleBefore
        /\ \E t \in run.timersBefore : t.tag \in run.visibleBefore
        /\ \E tag \in run.visibleBefore : \A t \in run.timersBefore : t.tag # tag

\* the entries of the file as they were written: the tag and whether the
\* third field is the writer's "True"
WrittenEntries ==
  LET lines == Tail(SplitAt(tagFile, "\n", <<>>))
      kept == SelectSeq(lines, LAMBDA line : line # <<>>)
  IN  [i \in 1..Len(kept) |->
         [tag |-> Field(SplitAt(kept[i], ",", <<>>), 1),
          visible |-> Field(SplitAt(kept[i], ",", <<>>), 3) = VisibleStr(TRUE)]]

\* the most recent of the entries for the tag is a visible one
LastWrittenVisible(entries, tag) ==
  \E i \in 1..Len(entries) :
    /\ entries[i] = [tag |-> tag, visible |-> TRUE]
    /\ \A j \in (i + 1)..Len(entries) : entries[j].tag # tag

\* the calls of appendEntry whose write succeeded
Succeeded == SelectSeq(tagLog, LAMBDA c : c.ok)

\* C35: a tag is in visibleTags exactly when the most recent entry appended to
\* the file for it is a visible one; the file holds the entries of the calls
\* whose write succeeded, so a failed append changes neither.
C35_VisibleIffLastEntryVisible ==
  tagManager.exists =>
    LET entries == WrittenEntries
        succeeded == Succeeded
    IN  /\ \A tag \in TagChoices \cup {Start} :
             Has(tagManager.visibleTags, tag) <=> LastWrittenVisible(entries, tag)
        /\ entries =
             [i \in 1..Len(succeeded) |->
                [tag |-> succeeded[i].tag, visible |-> succeeded[i].visible]]

\* the append of a tag's first visible entry failed, the write of a delay
\* timer succeeded after it, and finalize has run
C35_Witness ==
  /\ tagManager.exists
  /\ finalizeRuns # <<>>
  /\ \E i \in 1..Len(tagLog) :
       /\ ~tagLog[i].ok
       /\ tagLog[i].visible
       /\ \A j \in 1..(i - 1) : tagLog[j].tag # tagLog[i].tag
       /\ \E j \in (i + 1)..Len(tagLog) : tagLog[j].ok /\ tagLog[j].by = "timer"

\* the calls of addTagWithDelay for the tag before entry i of the log
DelayCallsBefore(tag, i) ==
  {k \in 1..(i - 1) : tagLog[k].by = "delay" /\ tagLog[k].tag = tag}

\* the latest of them
LatestDelayCall(tag, i) ==
  CHOOSE k \in DelayCallsBefore(tag, i) : \A m \in DelayCallsBefore(tag, i) : m <= k

\* C36: a tag has at most one timer, the one activeDelayedTags holds for it;
\* an entry appended by a timer is invisible, comes delaySeconds after the
\* latest call of addTagWithDelay for its tag and is the only one since that
\* call; and a timer that has fired is no longer in activeDelayedTags.
C36_OneTimerPerTag ==
  /\ \A t, u \in tagTimers : t.tag = u.tag => t = u
  /\ \A i, j \in 1..Len(tagManager.activeDelayedTags) :
       tagManager.activeDelayedTags[i].tag = tagManager.activeDelayedTags[j].tag
         => i = j
  /\ {[tag |-> t.tag, id |-> t.id] : t \in tagTimers}
       = Elements(tagManager.activeDelayedTags)
  /\ \A i \in 1..Len(tagLog) :
       tagLog[i].by = "timer" =>
         /\ ~tagLog[i].visible
         /\ DelayCallsBefore(tagLog[i].tag, i) # {}
         /\ LET k == LatestDelayCall(tagLog[i].tag, i)
            IN  /\ tagLog[i].at = tagLog[k].at + tagLog[k].delay * Second
                /\ \A m \in (k + 1)..(i - 1) :
                     ~(tagLog[m].by = "timer" /\ tagLog[m].tag = tagLog[i].tag)

\* addTagWithDelay was called twice for a tag, the second time a second later
\* and before the first delay had expired, and a timer has appended the tag's
\* invisible entry
C36_Witness ==
  \E i, j, k \in 1..Len(tagLog) :
    /\ i < j /\ j < k
    /\ tagLog[i].by = "delay" /\ tagLog[j].by = "delay" /\ tagLog[k].by = "timer"
    /\ tagLog[i].tag = tagLog[j].tag /\ tagLog[j].tag = tagLog[k].tag
    /\ tagLog[i].at < tagLog[j].at
    /\ tagLog[j].at < tagLog[i].at + tagLog[i].delay * Second
    /\ tagLog[k].ok

\* C37: getAllEntries returns the entries appendEntry wrote, in order, each
\* with the tag and the visible flag it was written with.
C37_LogRoundTrip ==
  tagManager.exists =>
    LET read == GetAllEntries(tagFile)
        succeeded == Succeeded
    IN  /\ Len(read) = Len(succeeded)
        /\ \A i \in 1..Len(read) :
             /\ read[i].tag = succeeded[i].tag
             /\ read[i].visible = succeeded[i].visible

\* the closing entries (start, False) that finalize has written to the file
ClosingEntries ==
  {i \in 1..Len(tagLog) :
     /\ tagLog[i].by = "finalize" /\ tagLog[i].ok
     /\ tagLog[i].tag = Start /\ ~tagLog[i].visible}

\* C38: over the finalizeSession command, deactivate() and the disposal of the
\* subscriptions, finalize runs at most once for the TagManager, and the
\* closing entry (start, False) is written at most once.
C38_FinalizeAtMostOnce ==
  /\ Len(finalizeRuns) <= 1
  /\ Cardinality(ClosingEntries) <= 1

----------------------------------------------------------------------------
(* C39: the recording manager. *)

\* C39: the SIGTERM a call of stopRecording schedules is sent only to the
\* process that was recording when stopRecording was called.
C39_SigtermOnlyToStoppedProcess ==
  \A i \in 1..Len(signals) : signals[i].pid = signals[i].stopped

====
